---------------------------- MODULE Spec2Model ----------------------------
(***************************************************************************)
(* A model of the ecma335 crate's metadata reader: the byte-decoding       *)
(* framework (src/bytes.rs), the heap readers (src/metadata/streams/*.rs), *)
(* the context-sized ids and coded indices (streams/tables/id.rs) and the  *)
(* tables stream with its table readers (streams/tables.rs, table.rs).     *)
(*                                                                         *)
(* Machine words: the model is of a 64-bit target.  Heap ids and row ids   *)
(* have private constructors and are only produced by decoding 2- or       *)
(* 4-byte fields, so every modelled quantity stays far below 2^63 and the  *)
(* sums and products below never reach the point where usize arithmetic    *)
(* saturates, wraps or panics.  Byte values are 0..255; buffers are        *)
(* sequences of bytes, indexed from 0 in the code and from 1 here.         *)
(***************************************************************************)
EXTENDS Integers, Sequences, FiniteSets, TLC

VARIABLES
  buf,      \* the byte slice the current operation works on (&[u8])
  header,   \* the MetadataTablesHeader used as decoding context
  op,       \* the operation applied last and its arguments
  res,      \* what that operation returned
  stream,   \* the TablesStream built from buf (header and table regions)
  iter,     \* the TableReaderIter under iteration and what it has yielded
  reader,   \* the MetadataReader built from buf, or the error it failed with
  dir       \* the MetadataStreamIter under iteration and what it has yielded

vars == <<buf, header, op, res, stream, iter, reader, dir>>

(***************************************************************************)
(* Bounds of the model.                                                    *)
(***************************************************************************)
\* longest heap / decode buffer with freely chosen bytes
MaxLen == 4
\* how far past the end of a heap an id or cursor is tried
MaxPast == 2

(***************************************************************************)
(* Bit arithmetic on naturals, as the code's &, | and shifts compute it.   *)
(***************************************************************************)
RECURSIVE Pow2(_)
Pow2(n) == IF n = 0 THEN 1 ELSE 2 * Pow2(n - 1)

RECURSIVE BitAnd(_, _)
BitAnd(a, b) ==
  IF a = 0 \/ b = 0 THEN 0
  ELSE (IF a % 2 = 1 /\ b % 2 = 1 THEN 1 ELSE 0) + 2 * BitAnd(a \div 2, b \div 2)

RECURSIVE BitOr(_, _)
BitOr(a, b) ==
  IF a = 0 THEN b
  ELSE IF b = 0 THEN a
  ELSE (IF a % 2 = 1 \/ b % 2 = 1 THEN 1 ELSE 0) + 2 * BitOr(a \div 2, b \div 2)

Shl(a, n) == a * Pow2(n)
Shr(a, n) == a \div Pow2(n)

(***************************************************************************)
(* Option values and decode results.  A decode returns Option<T> and       *)
(* moves the caller's cursor; the model returns both: ok, the value, and   *)
(* off, the cursor the caller is left with.                                *)
(***************************************************************************)
None == <<>>
Some(v) == <<v>>
IsSome(o) == Len(o) = 1
Unwrap(o) == o[1]

Ok(v, off) == [ok |-> TRUE, val |-> v, off |-> off]
Fail(off) == [ok |-> FALSE, off |-> off]

(***************************************************************************)
(* Slices.  Bytes(b, beg, end) is the view b[beg..end] itself; SliceGet    *)
(* and SliceGetFrom are the checked <[u8]>::get(beg..end) and get(beg..)   *)
(* the code goes through.  A view that ran past the end of b would show    *)
(* bytes that are not b's: they read as 0 here.                            *)
(***************************************************************************)
Bytes(b, beg, end) ==
  [i \in 1..(end - beg) |-> IF beg + i <= Len(b) THEN b[beg + i] ELSE 0]

SliceGet(b, beg, end) ==
  IF beg <= end /\ end <= Len(b) THEN Some(Bytes(b, beg, end)) ELSE None

SliceGetFrom(b, beg) ==
  IF beg <= Len(b) THEN Some(Bytes(b, beg, Len(b))) ELSE None

\* <[u8]>::get(i) / first()
ByteAt(b, i) == IF i < Len(b) THEN Some(b[i + 1]) ELSE None

(***************************************************************************)
(* bytes.rs: impl FromBytes<usize> for &[u8] -- a span of len bytes.       *)
(***************************************************************************)
ReadSpan_eager(b, offset, len) ==
  LET end == offset + len
      val == SliceGet(b, offset, end)
  IN IF IsSome(val) THEN Ok(Unwrap(val), end) ELSE Fail(end)

ReadSpan(b, offset, len) ==
  LET beg == offset
      end == beg + len
      val == SliceGet(b, beg, end)
  IN IF IsSome(val) THEN Ok(Unwrap(val), end) ELSE Fail(offset)

(***************************************************************************)
(* bytes.rs: impl FromBytes<CompressedLength> for usize.  In Rust `<<`     *)
(* binds tighter than `&`, which binds tighter than `|`, so the source's   *)
(* `val & 0x3f << 8 | b1` is (val & (0x3f << 8)) | b1 and                  *)
(* `val & 0x1f << 24` is val & (0x1f << 24).                               *)
(***************************************************************************)
ReadCompressedLength_one_byte(b, offset) ==
  LET rem == SliceGetFrom(b, offset) IN
  IF ~IsSome(rem) \/ ~IsSome(ByteAt(Unwrap(rem), 0)) THEN Fail(offset)
  ELSE Ok(Unwrap(ByteAt(Unwrap(rem), 0)), offset + 1)

ReadCompressedLength(b, offset) ==
  LET rem == SliceGetFrom(b, offset) IN
  IF ~IsSome(rem) THEN Fail(offset)
  ELSE LET r == Unwrap(rem)
           first == ByteAt(r, 0)
       IN
    IF ~IsSome(first) THEN Fail(offset)
    ELSE LET val == Unwrap(first) IN
      IF BitAnd(val, 128) = 0 THEN Ok(val, offset + 1)
      ELSE IF BitAnd(val, 64) = 0 THEN
        IF ~IsSome(ByteAt(r, 1)) THEN Fail(offset)
        ELSE Ok(BitOr(BitAnd(val, Shl(63, 8)), Unwrap(ByteAt(r, 1))), offset + 2)
      ELSE IF BitAnd(val, 32) = 0 THEN
        IF ~IsSome(ByteAt(r, 1)) \/ ~IsSome(ByteAt(r, 2)) \/ ~IsSome(ByteAt(r, 3))
        THEN Fail(offset)
        ELSE LET v0 == BitAnd(val, Shl(31, 24))
                 v1 == BitOr(v0, Shl(Unwrap(ByteAt(r, 1)), 16))
                 v2 == BitOr(v1, Shl(Unwrap(ByteAt(r, 2)), 8))
                 v3 == BitOr(v2, Unwrap(ByteAt(r, 3)))
             IN Ok(v3, offset + 4)
      ELSE Fail(offset)


(***************************************************************************)
(* core::ffi::CStr::from_bytes_until_nul: the text up to the first zero    *)
(* byte of s; an error when s holds no zero byte.  The value kept is       *)
(* to_bytes(), the text without its terminator.                            *)
(***************************************************************************)
HasNul(s) == \E i \in 1..Len(s) : s[i] = 0
FirstNul(s) == CHOOSE i \in 1..Len(s) : s[i] = 0 /\ \A j \in 1..(i - 1) : s[j] # 0
FromBytesUntilNul(s) ==
  IF HasNul(s) THEN Some(SubSeq(s, 1, FirstNul(s) - 1)) ELSE None

(***************************************************************************)
(* Heap lookups.  Each returns ok and, when ok, the value and [beg, end):  *)
(* the byte range of the heap the returned view borrows.                   *)
(***************************************************************************)
Found(v, beg, end) == [ok |-> TRUE, val |-> v, beg |-> beg, end |-> end]
Absent == [ok |-> FALSE]

\* blobs.rs: BlobsHeap::get
BlobsHeap_get(heap, id) ==
  LET len == ReadCompressedLength(heap, id) IN
  IF ~len.ok THEN Absent
  ELSE LET data == ReadSpan(heap, len.off, len.val) IN
    IF ~data.ok THEN Absent ELSE Found(data.val, len.off, data.off)

\* user_strings.rs: UserStringsHeap::get
UserStringsHeap_get(heap, id) ==
  LET len == ReadCompressedLength(heap, id) IN
  IF ~len.ok THEN Absent
  ELSE LET data == ReadSpan(heap, len.off, len.val) IN
    IF ~data.ok THEN Absent ELSE Found(data.val, len.off, data.off)

StringsHeap_get_from_start(heap, id) ==
  LET rem == SliceGetFrom(heap, id) IN
  IF ~IsSome(rem) THEN Absent
  ELSE LET str == FromBytesUntilNul(heap) IN
    IF ~IsSome(str) THEN Absent
    ELSE Found(Unwrap(str), id, id + Len(Unwrap(str)) + 1)

\* strings.rs: StringsHeap::get
StringsHeap_get(heap, id) ==
  LET rem == SliceGetFrom(heap, id) IN
  IF ~IsSome(rem) THEN Absent
  ELSE LET str == FromBytesUntilNul(Unwrap(rem)) IN
    IF ~IsSome(str) THEN Absent
    ELSE Found(Unwrap(str), id, id + Len(Unwrap(str)) + 1)

\* guids.rs: the width of a guid, the 16 of `beg + 16` and of [u8; 16]
GuidSize == 16

GuidsHeap_get_unchecked(heap, id) ==
  IF id <= Len(heap) THEN Found(Bytes(heap, id, id + GuidSize), id, id + GuidSize)
  ELSE Absent

\* guids.rs: GuidsHeap::get
GuidsHeap_get(heap, id) ==
  LET beg == id
      end == beg + GuidSize
      b == SliceGet(heap, beg, end)
  IN IF IsSome(b) /\ Len(Unwrap(b)) = GuidSize
     THEN Found(Unwrap(b), beg, end) ELSE Absent

(***************************************************************************)
(* The byte-level specification: a heap or decode buffer is fixed by Init  *)
(* and the decode framework's operations and the four heaps' lookups are   *)
(* applied to it at every cursor and id up to MaxPast past its end.        *)
(***************************************************************************)
\* 0x00, 0x01, 0x02: terminator and one-byte lengths; 0x81: two-byte form
\* with a non-zero high part; 0xC0: four-byte form; 0xE0: invalid prefix
ByteAlphabet == {0, 1, 2, 129, 192, 224}

SmallBufs == UNION {[1..n -> ByteAlphabet] : n \in 0..MaxLen}
\* heaps around the size of one guid, bytes 1, 2, 3, ...
LongBufs == {[i \in 1..n |-> i] : n \in (GuidSize - 1)..(GuidSize + MaxPast)}

NoHeader == [heap_sizes |-> 0, valid |-> {}, rows |-> <<>>]
NoStream == [ok |-> FALSE]
NoIter == [table |-> "none", id |-> 0, done |-> TRUE, yielded |-> <<>>]
NoReader == [ok |-> FALSE, err |-> "none"]
NoDir == [len |-> 0, offset |-> 0, yielded |-> <<>>]

Positions(b) == 0..(Len(b) + MaxPast)

\* Init fixes the buffer and the cursor or id (op.arg) the operations are
\* called with
InitBytes ==
  /\ buf \in SmallBufs \cup LongBufs
  /\ header = NoHeader
  /\ \E a \in Positions(buf) : op = [name |-> "init", arg |-> a]
  /\ res = Absent
  /\ stream = NoStream
  /\ iter = NoIter
  /\ reader = NoReader
  /\ dir = NoDir

Apply(name, result) ==
  /\ op' = [op EXCEPT !.name = name]
  /\ res' = result
  /\ UNCHANGED <<buf, header, stream, iter, reader, dir>>

DoReadCompressed == Apply("read_compressed", ReadCompressedLength(buf, op.arg))

DoBlobGet == Apply("blob_get", BlobsHeap_get(buf, op.arg))

DoUserStringsGet == Apply("user_strings_get", UserStringsHeap_get(buf, op.arg))

DoStringsGet == Apply("strings_get", StringsHeap_get(buf, op.arg))

DoGuidsGet == Apply("guids_get", GuidsHeap_get(buf, op.arg))

NextBytes ==
  \/ DoReadCompressed
  \/ DoBlobGet
  \/ DoUserStringsGet
  \/ DoStringsGet
  \/ DoGuidsGet

SpecBytes == InitBytes /\ [][NextBytes]_vars

(***************************************************************************)
(* The compressed unsigned integer as the format defines it: one, two or   *)
(* four bytes selected by the prefix 0, 10, 110 of the first byte.         *)
(***************************************************************************)
FormatCompressed(b, offset) ==
  IF offset >= Len(b) THEN Fail(offset)
  ELSE LET b0 == b[offset + 1] IN
    IF b0 < 128 THEN Ok(b0, offset + 1)
    ELSE IF b0 < 192 THEN
      IF offset + 2 > Len(b) THEN Fail(offset)
      ELSE Ok((b0 % 64) * 256 + b[offset + 2], offset + 2)
    ELSE IF b0 < 224 THEN
      IF offset + 4 > Len(b) THEN Fail(offset)
      ELSE Ok((b0 % 32) * 16777216 + b[offset + 2] * 65536
                + b[offset + 3] * 256 + b[offset + 4], offset + 4)
    ELSE Fail(offset)

\* C1: decoding a compressed unsigned integer yields the low 7 bits of b0
\* for prefix 0, ((b0 & 0x3F) << 8) | b1 for prefix 10, and
\* ((b0 & 0x1F) << 24) | (b1 << 16) | (b2 << 8) | b3 for prefix 110.
C1_CompressedValue ==
  (op.name = "read_compressed" /\ res.ok) =>
     res.val = FormatCompressed(buf, op.arg).val

\* C2: Blob.get(id) and UserStrings.get(id) return exactly the L bytes after
\* the compressed length L found at id, and are absent when the prefix is
\* invalid or truncated or fewer than L bytes follow it.
C2_BlobSpan ==
  op.name \in {"blob_get", "user_strings_get"} =>
    LET len == FormatCompressed(buf, op.arg) IN
    IF ~len.ok \/ len.off + len.val > Len(buf)
    THEN ~res.ok
    ELSE res.ok /\ res.val = SubSeq(buf, len.off + 1, len.off + len.val)

HeapGetOps == {"blob_get", "user_strings_get", "strings_get", "guids_get"}

\* C3: for each of the four heaps, get(id) is absent for every id at or past
\* the heap's length, and the view a get returns lies inside the heap.
C3_HeapGetInBounds ==
  op.name \in HeapGetOps =>
    /\ op.arg >= Len(buf) => ~res.ok
    /\ res.ok => (0 <= res.beg /\ res.beg <= res.end /\ res.end <= Len(buf)
                  /\ op.arg <= res.beg)

\* C3 witness: a guid lookup at an id past a heap that holds a whole guid,
\* refused
C3_Witness ==
  /\ op.name = "guids_get"
  /\ Len(buf) >= GuidSize
  /\ op.arg >= Len(buf)
  /\ ~res.ok


(***************************************************************************)
(* bytes.rs: fixed-size arrays and the little-endian integers built from   *)
(* them (macro int!).                                                      *)
(***************************************************************************)
ReadArray(b, offset, L) ==
  LET beg == offset
      end == beg + L
      val == SliceGet(b, beg, end)
  IN IF IsSome(val) /\ Len(Unwrap(val)) = L THEN Ok(Unwrap(val), end)
     ELSE Fail(offset)

RECURSIVE FromLeBytes(_)
FromLeBytes(a) ==
  IF Len(a) = 0 THEN 0 ELSE a[1] + 256 * FromLeBytes(SubSeq(a, 2, Len(a)))

\* read::<uN>() for N = 8 * size
ReadInt(b, offset, size) ==
  LET a == ReadArray(b, offset, size) IN
  IF a.ok THEN Ok(FromLeBytes(a.val), a.off) ELSE Fail(a.off)

(***************************************************************************)
(* rows.rs: the numeric id of each row type's table (row! ... : $id).      *)
(***************************************************************************)
RowID ==
  [ModuleRow |-> 0, TypeRefRow |-> 1, TypeDefRow |-> 2, FieldRow |-> 4,
   MethodDefRow |-> 6, ParamRow |-> 8, InterfaceImplRow |-> 9,
   MemberRefRow |-> 10, ConstantRow |-> 11, CustomAttributeRow |-> 12,
   FieldMarshalRow |-> 13, DeclSecurityRow |-> 14, ClassLayoutRow |-> 15,
   FieldLayoutRow |-> 16, StandAloneSigRow |-> 17, EventMapRow |-> 18,
   EventRow |-> 20, PropertyMapRow |-> 21, PropertyRow |-> 23,
   MethodSemanticsRow |-> 24, MethodImplRow |-> 25, ModuleRefRow |-> 26,
   TypeSpecRow |-> 27, ImplMapRow |-> 28, FieldRvaRow |-> 29,
   AssemblyRow |-> 32, AssemblyProcessorRow |-> 33, AssemblyOsRow |-> 34,
   AssemblyRefRow |-> 35, AssemblyRefProcessorRow |-> 36,
   AssemblyRefOsRow |-> 37, FileRow |-> 38, ExportedTypeRow |-> 39,
   ManifestResourceRow |-> 40, NestedClassRow |-> 41,
   GenericParamRow |-> 42, MethodSpecRow |-> 43,
   GenericParamConstraintRow |-> 44]

RowTypes == DOMAIN RowID

\* headers.rs: rows: [u32; 64], indexed by table id
TableIds == 0..63

\* table.rs, row!: RowRead::table_len
table_len(R, h) == h.rows[RowID[R]]

(***************************************************************************)
(* headers.rs: HeapSizes, and the heap ids sized by it.                    *)
(***************************************************************************)
HeapFlag == [string |-> 1, guid |-> 2, blob |-> 4]

\* bitflags: HeapSizes::contains
Contains(heap_sizes, flag) == BitAnd(heap_sizes, flag) = flag

HeapId_byte_size_swapped(heap, heap_sizes) ==
  IF Contains(heap_sizes, HeapFlag[heap]) THEN 2 ELSE 4

\* strings.rs, guids.rs, blobs.rs: ByteSize<HeapSizes> for StringId, GuidId,
\* BlobId (heap is "string", "guid" or "blob")
HeapId_byte_size(heap, heap_sizes) ==
  IF Contains(heap_sizes, HeapFlag[heap]) THEN 4 ELSE 2

\* strings.rs, guids.rs, blobs.rs: FromBytes<HeapSizes> for the three ids
HeapId_from_bytes(heap, b, offset, heap_sizes) ==
  ReadInt(b, offset, HeapId_byte_size(heap, heap_sizes))

(***************************************************************************)
(* id.rs: RowId<R>.                                                        *)
(***************************************************************************)
RowId_byte_size_any(R, h) ==
  IF \A t \in TableIds : h.rows[t] < Shl(1, 16) THEN 2 ELSE 4

RowId_byte_size(R, h) ==
  LET len == table_len(R, h) IN
  IF len < Shl(1, 16) THEN 2 ELSE 4

RowId_from_bytes(R, b, offset, h) ==
  ReadInt(b, offset, RowId_byte_size(R, h))

(***************************************************************************)
(* id.rs: the coded_id! families: tag bit width and, in source order, the  *)
(* (target row type, tag) pairs.                                           *)
(***************************************************************************)
CodedId ==
  [TypeDefOrRef |-> [bits |-> 2, variants |->
     << <<"TypeDefRow", 0>>, <<"TypeRefRow", 1>>, <<"TypeSpecRow", 2>> >>],
   HasConstant |-> [bits |-> 2, variants |->
     << <<"FieldRow", 0>>, <<"ParamRow", 1>>, <<"PropertyRow", 2>> >>],
   HasCustomAttribute |-> [bits |-> 5, variants |->
     << <<"MethodDefRow", 0>>, <<"FieldRow", 1>>, <<"TypeRefRow", 2>>,
        <<"TypeDefRow", 3>>, <<"ParamRow", 4>>, <<"InterfaceImplRow", 5>>,
        <<"MemberRefRow", 6>>, <<"ModuleRow", 7>>, <<"DeclSecurityRow", 8>>,
        <<"PropertyRow", 9>>, <<"EventRow", 10>>, <<"StandAloneSigRow", 11>>,
        <<"ModuleRefRow", 12>>, <<"TypeSpecRow", 13>>, <<"AssemblyRow", 14>>,
        <<"AssemblyRefRow", 15>>, <<"FileRow", 16>>, <<"ExportedTypeRow", 17>>,
        <<"ManifestResourceRow", 18>>, <<"GenericParamRow", 19>>,
        <<"GenericParamConstraintRow", 20>>, <<"MethodSpecRow", 21>> >>],
   HasFieldMarshal |-> [bits |-> 1, variants |->
     << <<"FieldRow", 0>>, <<"ParamRow", 1>> >>],
   HasDeclSecurity |-> [bits |-> 2, variants |->
     << <<"TypeDefRow", 0>>, <<"MethodDefRow", 1>>, <<"AssemblyRow", 2>> >>],
   MemberRefParent |-> [bits |-> 3, variants |->
     << <<"TypeDefRow", 0>>, <<"TypeRefRow", 1>>, <<"ModuleRefRow", 2>>,
        <<"MethodDefRow", 3>>, <<"TypeSpecRow", 4>> >>],
   HasSemantics |-> [bits |-> 1, variants |->
     << <<"EventRow", 0>>, <<"PropertyRow", 1>> >>],
   MethodDefOrRef |-> [bits |-> 1, variants |->
     << <<"MethodDefRow", 0>>, <<"MemberRefRow", 1>> >>],
   MemberForwarded |-> [bits |-> 1, variants |->
     << <<"FieldRow", 0>>, <<"MethodDefRow", 1>> >>],
   Implementation |-> [bits |-> 2, variants |->
     << <<"FileRow", 0>>, <<"AssemblyRefRow", 1>>, <<"ExportedTypeRow", 2>> >>],
   CustomAttributeType |-> [bits |-> 3, variants |->
     << <<"MethodDefRow", 2>>, <<"MemberRefRow", 3>> >>],
   ResolutionScope |-> [bits |-> 2, variants |->
     << <<"ModuleRow", 0>>, <<"ModuleRefRow", 1>>, <<"AssemblyRefRow", 2>>,
        <<"TypeRefRow", 3>> >>],
   TypeOrMethodDef |-> [bits |-> 1, variants |->
     << <<"TypeDefRow", 0>>, <<"MethodDefRow", 1>> >>]]

Families == DOMAIN CodedId

Variants(F) == {CodedId[F].variants[i] : i \in 1..Len(CodedId[F].variants)}

from_tag_high_bits(F, val) ==
  LET tag == Shr(val, 16 - CodedId[F].bits)
      index == BitAnd(val, Shl(1, 16 - CodedId[F].bits) - 1)
  IN IF \E v \in Variants(F) : v[2] = tag
     THEN Some([table |-> (CHOOSE v \in Variants(F) : v[2] = tag)[1],
                index |-> index])
     ELSE None

\* coded_id!: from_tag
from_tag(F, val) ==
  LET tag == BitAnd(val, Shl(1, CodedId[F].bits) - 1)
      index == Shr(val, CodedId[F].bits)
  IN IF \E v \in Variants(F) : v[2] = tag
     THEN Some([table |-> (CHOOSE v \in Variants(F) : v[2] = tag)[1],
                index |-> index])
     ELSE None

Coded_byte_size_first_only(F, h) ==
  IF table_len(CodedId[F].variants[1][1], h) >= Shl(1, 16 - CodedId[F].bits)
  THEN 4 ELSE 2

\* coded_id!: ByteSize<&MetadataTablesHeader>
Coded_byte_size(F, h) ==
  IF \E v \in Variants(F) : table_len(v[1], h) >= Shl(1, 16 - CodedId[F].bits)
  THEN 4 ELSE 2

\* coded_id!: FromBytes<&MetadataTablesHeader>: the field is read, and the
\* cursor moved, before the tag is looked up
Coded_from_bytes(F, b, offset, h) ==
  LET tag == ReadInt(b, offset, Coded_byte_size(F, h)) IN
  IF ~tag.ok THEN Fail(tag.off)
  ELSE LET id == from_tag(F, tag.val) IN
    IF IsSome(id) THEN Ok(Unwrap(id), tag.off) ELSE Fail(tag.off)


(***************************************************************************)
(* Field types of a row, and the dispatch the row! macro makes on them:    *)
(* <$field_ty>::byte_size(header.into()) and                               *)
(* <$field_ty>::from_bytes(buf, offset, header.into()).                    *)
(***************************************************************************)
HeapIdT(heap) == [kind |-> "heap", of |-> heap]
RowIdT(R) == [kind |-> "rowid", of |-> R]
CodedT(F) == [kind |-> "coded", of |-> F]

IdTypes ==
  {HeapIdT(x) : x \in DOMAIN HeapFlag} \cup {RowIdT(R) : R \in RowTypes}
    \cup {CodedT(F) : F \in Families}

Id_byte_size(ty, h) ==
  CASE ty.kind = "heap" -> HeapId_byte_size(ty.of, h.heap_sizes)
    [] ty.kind = "rowid" -> RowId_byte_size(ty.of, h)
    [] ty.kind = "coded" -> Coded_byte_size(ty.of, h)

Id_from_bytes(ty, b, offset, h) ==
  CASE ty.kind = "heap" -> HeapId_from_bytes(ty.of, b, offset, h.heap_sizes)
    [] ty.kind = "rowid" -> RowId_from_bytes(ty.of, b, offset, h)
    [] ty.kind = "coded" -> Coded_from_bytes(ty.of, b, offset, h)

(***************************************************************************)
(* The id specification: a tables header and a field buffer are fixed by   *)
(* Init; byte_size and from_bytes of every heap id, row id and coded index *)
(* type is applied under that header.                                      *)
(***************************************************************************)
\* largest first byte of a field buffer: every 5-bit tag, and two more
MaxTagByte == 33

\* row counts on both sides of every width threshold of id.rs
Counts == {0, 1, 2047, 2048, 8191, 8192, 16383, 16384, 32767, 32768,
           65535, 65536, 70000}

SchemaIds == {RowID[R] : R \in RowTypes}

Header(hs, rows) ==
  [heap_sizes |-> hs, valid |-> {t \in TableIds : rows[t] # 0}, rows |-> rows]

OneHot(hot, cnt, base) == [t \in TableIds |-> IF t = hot THEN cnt ELSE base]

\* one table at each count, the others empty
HotHeaders == {Header(0, OneHot(hot, cnt, 0)) : hot \in SchemaIds, cnt \in Counts}
\* every heap-size combination, with TypeDef large or every table small
FlagHeaders ==
  {Header(hs, rows) : hs \in 0..7,
                      rows \in {OneHot(RowID.TypeDefRow, 70000, 3), OneHot(0, 3, 3)}}
\* every field narrow, every field wide
PlainHeaders == {Header(0, OneHot(0, 3, 3)), Header(7, OneHot(0, 70000, 70000))}

FieldBufs ==
  {[i \in 1..n |-> IF i = 1 THEN b0 ELSE i - 1] : b0 \in 0..MaxTagByte, n \in 0..MaxLen}

\* Init fixes the header, the field buffer, the cursor (op.arg) and the
\* field type (op.ty) the operations are called with
InitIds ==
  /\ \/ /\ header \in HotHeaders \cup FlagHeaders
        /\ buf = <<5, 1, 2, 3>>
        /\ \E ty \in IdTypes : op = [name |-> "init", arg |-> 0, ty |-> ty]
     \/ /\ header \in PlainHeaders
        /\ buf \in FieldBufs
        /\ \E a \in 0..1, ty \in IdTypes : op = [name |-> "init", arg |-> a, ty |-> ty]
  /\ res = Absent
  /\ stream = NoStream
  /\ iter = NoIter
  /\ reader = NoReader
  /\ dir = NoDir

DoByteSize == Apply("byte_size", Id_byte_size(op.ty, header))

DoFromBytes == Apply("from_bytes", Id_from_bytes(op.ty, buf, op.arg, header))

NextIds == DoByteSize \/ DoFromBytes

SpecIds == InitIds /\ [][NextIds]_vars

(***************************************************************************)
(* What the claims say about widths and values, in plain arithmetic.       *)
(***************************************************************************)
\* the little-endian value of the w bytes of b at offset
LeValue(b, offset, w) ==
  LET RECURSIVE Sum(_)
      Sum(k) == IF k = 0 THEN 0 ELSE Sum(k - 1) + b[offset + k] * (256 ^ (k - 1))
  IN Sum(w)

Candidates(F) == {v[1] : v \in Variants(F)}

\* C4: a coded index of tag width T is 2 bytes wide iff every candidate
\* table has fewer than 2^(16-T) rows, and 4 bytes wide otherwise.
C4_CodedWidth ==
  (op.name = "byte_size" /\ op.ty.kind = "coded") =>
    LET T == CodedId[op.ty.of].bits
        small == \A R \in Candidates(op.ty.of) : header.rows[RowID[R]] < 2 ^ (16 - T)
    IN /\ res \in {2, 4}
       /\ res = 2 <=> small
       /\ res = 4 <=> ~small

\* C4 witness: a 4-byte coded index forced by one candidate other than the
\* family's first reaching the threshold exactly
C4_Witness ==
  /\ op.name = "byte_size"
  /\ op.ty = CodedT("HasCustomAttribute")
  /\ header.rows[RowID.MethodSpecRow] = 2048
  /\ res = 4

\* C5: decoding a coded index takes the tag from the low tag_bits bits of
\* the raw field and the row ordinal from raw >> tag_bits, selects the table
\* the family maps the tag to, and fails when the tag has no mapping.
C5_CodedDecode ==
  (op.name = "from_bytes" /\ op.ty.kind = "coded") =>
    LET F == op.ty.of
        T == CodedId[F].bits
        w == Coded_byte_size(F, header)
    IN IF op.arg + w > Len(buf) THEN ~res.ok
       ELSE LET raw == LeValue(buf, op.arg, w)
                tag == raw % (2 ^ T)
                mapped == {v \in Variants(F) : v[2] = tag}
            IN /\ res.ok <=> mapped # {}
               /\ res.ok => /\ \E v \in mapped : res.val.table = v[1]
                            /\ res.val.index = raw \div (2 ^ T)
                            /\ res.off = op.arg + w
               /\ F = "CustomAttributeType" => (res.ok <=> tag \in {2, 3})

\* C5 witness: an attribute-type index with tag 3 and a non-zero ordinal,
\* decoded to a MemberRef row
C5_Witness ==
  /\ op.name = "from_bytes"
  /\ op.ty = CodedT("CustomAttributeType")
  /\ op.arg = 0 /\ Len(buf) >= 2 /\ buf[1] = 3
  /\ res.ok /\ res.val.table = "MemberRefRow" /\ res.val.index > 0

\* C6: a RowId<Target> field is 2 bytes wide when Target has fewer than
\* 65536 rows and 4 bytes otherwise, whatever the other tables' row counts
\* and the heap-size flags; its value is the raw field value.
C6_RowIdWidth ==
  /\ (op.name = "byte_size" /\ op.ty.kind = "rowid") =>
        res = IF header.rows[RowID[op.ty.of]] < 65536 THEN 2 ELSE 4
  /\ (op.name = "from_bytes" /\ op.ty.kind = "rowid") =>
        LET w == IF header.rows[RowID[op.ty.of]] < 65536 THEN 2 ELSE 4 IN
        IF op.arg + w > Len(buf) THEN ~res.ok
        ELSE res.ok /\ res.val = LeValue(buf, op.arg, w) /\ res.off = op.arg + w

\* C6 witness: TypeDef has 70000 rows, every other table 3: RowId<TypeDef>
\* is 4 bytes wide
C6_Witness ==
  /\ op.name = "byte_size"
  /\ op.ty = RowIdT("TypeDefRow")
  /\ header.rows[RowID.TypeDefRow] = 70000
  /\ \A t \in TableIds \ {RowID.TypeDefRow} : header.rows[t] = 3
  /\ res = 4

\* C7: a String, Guid or Blob id is 2 bytes wide when bit 0, 1 or 2 of the
\* heap-size flags is clear and 4 when it is set, and decoding reads exactly
\* that many bytes as a little-endian value.
C7_HeapIdWidth ==
  op.ty.kind = "heap" =>
    LET bit == CASE op.ty.of = "string" -> 0 [] op.ty.of = "guid" -> 1
                 [] op.ty.of = "blob" -> 2
        w == IF (header.heap_sizes \div (2 ^ bit)) % 2 = 1 THEN 4 ELSE 2
    IN /\ op.name = "byte_size" => res = w
       /\ op.name = "from_bytes" =>
            IF op.arg + w > Len(buf) THEN ~res.ok
            ELSE res.ok /\ res.val = LeValue(buf, op.arg, w) /\ res.off = op.arg + w

\* C7 witness: with only the guid bit set, a Guid id decoded from 4 bytes
C7_Witness ==
  /\ op.name = "from_bytes"
  /\ op.ty = HeapIdT("guid")
  /\ header.heap_sizes = 2
  /\ res.ok /\ res.off = op.arg + 4


(***************************************************************************)
(* rows.rs: the 38 row shapes, each the ordered list of its field types.   *)
(***************************************************************************)
IntT(name) == [kind |-> "int", of |-> name]
FlagsT(name) == [kind |-> "flags", of |-> name]

U8 == IntT("u8")
U16 == IntT("u16")
U32 == IntT("u32")
StringId == HeapIdT("string")
GuidId == HeapIdT("guid")
BlobId == HeapIdT("blob")

Schema ==
  [ModuleRow |-> <<U16, StringId, GuidId, GuidId, GuidId>>,
   TypeRefRow |-> <<CodedT("ResolutionScope"), StringId, StringId>>,
   TypeDefRow |-> <<FlagsT("TypeAttributes"), StringId, StringId,
                    CodedT("TypeDefOrRef"), RowIdT("FieldRow"),
                    RowIdT("MethodDefRow")>>,
   FieldRow |-> <<FlagsT("FieldAttributes"), StringId, BlobId>>,
   MethodDefRow |-> <<U32, FlagsT("MethodImplAttributes"),
                      FlagsT("MethodAttributes"), StringId, BlobId,
                      RowIdT("ParamRow")>>,
   AssemblyRow |-> <<FlagsT("AssemblyHashAlgorithm"), U16, U16, U16, U16,
                     FlagsT("AssemblyFlags"), BlobId, StringId, StringId>>,
   AssemblyOsRow |-> <<U32, U32, U32>>,
   AssemblyProcessorRow |-> <<U32>>,
   AssemblyRefRow |-> <<U16, U16, U16, U16, FlagsT("AssemblyFlags"), BlobId,
                        StringId, StringId, BlobId>>,
   AssemblyRefOsRow |-> <<U32, U32, U32, RowIdT("AssemblyRefRow")>>,
   AssemblyRefProcessorRow |-> <<U32, RowIdT("AssemblyRefRow")>>,
   ClassLayoutRow |-> <<U16, U32, RowIdT("TypeDefRow")>>,
   ConstantRow |-> <<FlagsT("ElementType"), U8, CodedT("HasConstant"), BlobId>>,
   CustomAttributeRow |-> <<CodedT("HasCustomAttribute"),
                            CodedT("CustomAttributeType"), BlobId>>,
   DeclSecurityRow |-> <<U16, CodedT("HasDeclSecurity"), BlobId>>,
   EventRow |-> <<FlagsT("EventAttributes"), StringId, CodedT("TypeDefOrRef")>>,
   EventMapRow |-> <<RowIdT("TypeDefRow"), RowIdT("EventRow")>>,
   ExportedTypeRow |-> <<FlagsT("TypeAttributes"), RowIdT("TypeDefRow"),
                         StringId, StringId, CodedT("Implementation")>>,
   FieldLayoutRow |-> <<U32, RowIdT("FieldRow")>>,
   FieldMarshalRow |-> <<CodedT("HasFieldMarshal"), BlobId>>,
   FieldRvaRow |-> <<U32, RowIdT("FieldRow")>>,
   FileRow |-> <<FlagsT("FileAttributes"), StringId, BlobId>>,
   GenericParamRow |-> <<U16, FlagsT("GenericParamAttributes"),
                         CodedT("TypeOrMethodDef"), StringId>>,
   GenericParamConstraintRow |-> <<RowIdT("GenericParamRow"),
                                   CodedT("TypeDefOrRef")>>,
   ImplMapRow |-> <<FlagsT("PInvokeAttributes"), CodedT("MemberForwarded"),
                    StringId, RowIdT("ModuleRefRow")>>,
   InterfaceImplRow |-> <<RowIdT("TypeDefRow"), CodedT("TypeDefOrRef")>>,
   ManifestResourceRow |-> <<U32, FlagsT("ManifestResourceAttributes"),
                             StringId, CodedT("Implementation")>>,
   MemberRefRow |-> <<CodedT("MemberRefParent"), StringId, BlobId>>,
   MethodImplRow |-> <<RowIdT("TypeDefRow"), CodedT("MethodDefOrRef"),
                       CodedT("MethodDefOrRef")>>,
   MethodSemanticsRow |-> <<FlagsT("MethodSemanticsAttributes"),
                            RowIdT("MethodDefRow"), CodedT("HasSemantics")>>,
   MethodSpecRow |-> <<CodedT("MethodDefOrRef"), BlobId>>,
   ModuleRefRow |-> <<StringId>>,
   NestedClassRow |-> <<RowIdT("TypeDefRow"), RowIdT("TypeDefRow")>>,
   ParamRow |-> <<FlagsT("ParamAttributes"), U16, StringId>>,
   PropertyRow |-> <<FlagsT("PropertyAttributes"), StringId, BlobId>>,
   PropertyMapRow |-> <<RowIdT("TypeDefRow"), RowIdT("PropertyRow")>>,
   StandAloneSigRow |-> <<BlobId>>,
   TypeSpecRow |-> <<BlobId>>]

\* bytes.rs, int!: core::mem::size_of::<$int>()
IntSize == [u8 |-> 1, u16 |-> 2, u32 |-> 4]

\* tables/flags.rs is not among the sources: the widths of the flag types are
\* those of the format's columns (ECMA-335 II.22)
FlagsSize ==
  [TypeAttributes |-> 4, FieldAttributes |-> 2, MethodImplAttributes |-> 2,
   MethodAttributes |-> 2, AssemblyHashAlgorithm |-> 4, AssemblyFlags |-> 4,
   ElementType |-> 1, EventAttributes |-> 2, FileAttributes |-> 4,
   GenericParamAttributes |-> 2, PInvokeAttributes |-> 2,
   ManifestResourceAttributes |-> 4, MethodSemanticsAttributes |-> 2,
   ParamAttributes |-> 2, PropertyAttributes |-> 2]

Field_byte_size(ty, h) ==
  CASE ty.kind = "int" -> IntSize[ty.of]
    [] ty.kind = "flags" -> FlagsSize[ty.of]
    [] OTHER -> Id_byte_size(ty, h)

Field_from_bytes_wide_ints(ty, b, offset, h) ==
  CASE ty.kind = "int" -> ReadInt(b, offset, IntSize.u32)
    [] ty.kind = "flags" -> ReadInt(b, offset, FlagsSize[ty.of])
    [] OTHER -> Id_from_bytes(ty, b, offset, h)

\* a flag set is decoded from an integer of its width (bytes.rs, bitflags!)
Field_from_bytes(ty, b, offset, h) ==
  CASE ty.kind = "int" -> ReadInt(b, offset, IntSize[ty.of])
    [] ty.kind = "flags" -> ReadInt(b, offset, FlagsSize[ty.of])
    [] OTHER -> Id_from_bytes(ty, b, offset, h)

(***************************************************************************)
(* table.rs, row!: RowRead::row_size and RowRead::from_bytes.              *)
(***************************************************************************)
RECURSIVE SumSizes_narrow(_, _)
SumSizes_narrow(fields, h) ==
  IF Len(fields) = 0 THEN 0
  ELSE Field_byte_size(fields[1], Header(0, OneHot(0, 3, 3)))
       + SumSizes_narrow(SubSeq(fields, 2, Len(fields)), h)

RECURSIVE SumSizes(_, _)
SumSizes(fields, h) ==
  IF Len(fields) = 0 THEN 0
  ELSE Field_byte_size(fields[1], h) + SumSizes(SubSeq(fields, 2, Len(fields)), h)

row_size(R, h) == SumSizes(Schema[R], h)

\* the fields are decoded in order, each from where the last one stopped; the
\* first one that fails fails the row
RECURSIVE DecodeFields(_, _, _, _, _)
RECURSIVE DecodeRest(_, _, _, _, _)
DecodeFields(fields, b, offset, h, acc) ==
  IF Len(fields) = 0 THEN Ok(acc, offset)
  ELSE DecodeRest(fields, b, h, acc, Field_from_bytes(fields[1], b, offset, h))

\* f is the first field as decoded: the ? on it, then the fields after it
DecodeRest(fields, b, h, acc, f) ==
  IF ~f.ok THEN Fail(f.off)
  ELSE DecodeFields(SubSeq(fields, 2, Len(fields)), b, f.off, h,
                    Append(acc, <<f.val>>))

\* Some(Self { id, fields }) of the decoded fields r
MakeRow(id, r) ==
  IF r.ok THEN Ok([id |-> id, fields |-> r.val], r.off) ELSE Fail(r.off)

Row_from_bytes(R, b, offset, id, h) ==
  MakeRow(id, DecodeFields(Schema[R], b, offset, h, <<>>))

(***************************************************************************)
(* headers.rs: FromBytes for MetadataTablesHeader.  The two u64 bit        *)
(* vectors are kept as their eight little-endian bytes; bit i of the       *)
(* value is bit i % 8 of byte i / 8.                                       *)
(***************************************************************************)
FixedHeaderSize == 24
RowCountSize == 4

\* valid & (1 << i) != 0
BitSet(a, i) == (a[(i \div 8) + 1] \div Pow2(i % 8)) % 2 = 1

\* HeapSizes::from_bits_truncate
HeapSizes_from_bits_truncate(bits) == BitAnd(bits, 7)

\* the first set bit at or after bit i, rows.len() if there is none: the
\* turns of the loop for clear bits do nothing
NextSet(valid, i) ==
  LET set == {j \in TableIds : j >= i /\ BitSet(valid, j)}
  IN IF set = {} THEN Cardinality(TableIds)
     ELSE CHOOSE j \in set : \A k \in set : j <= k

RECURSIVE ReadRows_in_place(_, _, _, _, _)
ReadRows_in_place(b, offset, valid, i, rows) ==
  IF i \notin TableIds THEN Ok(rows, offset)
  ELSE IF ~BitSet(valid, i)
  THEN ReadRows_in_place(b, offset, valid, NextSet(valid, i), rows)
  ELSE LET row == ReadInt(b, offset, RowCountSize) IN
    IF ~row.ok THEN Fail(row.off)
    ELSE ReadRows_in_place(b, offset, valid, i + 1, [rows EXCEPT ![i] = row.val])

\* for (i, row) in rows.iter_mut().enumerate(): a count is read for each set
\* bit, in ascending bit order
RECURSIVE ReadRows(_, _, _, _, _)
ReadRows(b, offset, valid, i, rows) ==
  IF i \notin TableIds THEN Ok(rows, offset)
  ELSE IF ~BitSet(valid, i) THEN ReadRows(b, offset, valid, NextSet(valid, i), rows)
  ELSE LET row == ReadInt(b, offset, RowCountSize) IN
    IF ~row.ok THEN Fail(row.off)
    ELSE ReadRows(b, row.off, valid, i + 1, [rows EXCEPT ![i] = row.val])

TablesHeader_from_bytes(b, offset) ==
  LET reserved_0 == ReadInt(b, offset, 4)
      major_version == ReadInt(b, reserved_0.off, 1)
      minor_version == ReadInt(b, major_version.off, 1)
      heap_sizes == ReadInt(b, minor_version.off, 1)
      reserved_1 == ReadInt(b, heap_sizes.off, 1)
      valid == ReadArray(b, reserved_1.off, 8)
      sorted == ReadArray(b, valid.off, 8)
      rows == ReadRows(b, sorted.off, valid.val, 0, [t \in TableIds |-> 0])
  IN IF ~reserved_0.ok THEN Fail(reserved_0.off)
     ELSE IF ~major_version.ok THEN Fail(major_version.off)
     ELSE IF ~minor_version.ok THEN Fail(minor_version.off)
     ELSE IF ~heap_sizes.ok THEN Fail(heap_sizes.off)
     ELSE IF ~reserved_1.ok THEN Fail(reserved_1.off)
     ELSE IF ~valid.ok THEN Fail(valid.off)
     ELSE IF ~sorted.ok THEN Fail(sorted.off)
     ELSE IF ~rows.ok THEN Fail(rows.off)
     ELSE Ok([heap_sizes |-> HeapSizes_from_bits_truncate(heap_sizes.val),
              valid |-> {t \in TableIds : BitSet(valid.val, t)},
              rows |-> rows.val], rows.off)

(***************************************************************************)
(* table.rs: TableBytes.  The slice a table keeps is recorded by its two   *)
(* ends in the stream's bytes.                                             *)
(***************************************************************************)
Region(beg, end) == [beg |-> beg, end |-> end]

\* TableBytes::default(): bytes: &[]
TableBytes_default == Region(0, 0)

TableBytes_from_bytes_no_advance(R, bytes, offset, h) ==
  LET size == table_len(R, h) * row_size(R, h)
      slice == SliceGet(bytes, offset, offset + size)
  IN IF ~IsSome(slice) THEN Fail(offset)
     ELSE Ok(Region(offset, offset + size), offset)

TableBytes_from_bytes_clamped(R, bytes, offset, h) ==
  LET size == table_len(R, h) * row_size(R, h)
      slice == SliceGet(bytes, offset, offset + size)
  IN IF ~IsSome(slice) THEN Ok(Region(offset, Len(bytes)), Len(bytes))
     ELSE Ok(Region(offset, offset + size), offset + size)

\* TableBytes::from_bytes; len.saturating_mul(size) is the plain product
\* for a u32 count and a row of a few bytes
TableBytes_from_bytes(R, bytes, offset, h) ==
  LET size == table_len(R, h) * row_size(R, h)
      slice == SliceGet(bytes, offset, offset + size)
  IN IF ~IsSome(slice) THEN Fail(offset)
     ELSE Ok(Region(offset, offset + size), offset + size)

TableBytes_bytes_to_end(bytes, region) == Bytes(bytes, region.beg, Len(bytes))

\* the bytes field of a TableBytes, and of the readers made from it
TableBytes_bytes(bytes, region) == Bytes(bytes, region.beg, region.end)

(***************************************************************************)
(* tables.rs: TablesStream::from_bytes.                                    *)
(***************************************************************************)
RowOfId(table) == CHOOSE R \in RowTypes : RowID[R] = table

ReadTable_skipping_rows(bytes, offset, h, table, tables) ==
  IF table \notin SchemaIds THEN Ok(tables, offset + h.rows[table])
  ELSE LET R == RowOfId(table)
           t == TableBytes_from_bytes(R, bytes, offset, h)
       IN IF ~t.ok THEN Fail(t.off)
          ELSE Ok([tables EXCEPT ![R] = t.val], t.off)

\* match table { $Row::ID => tables.$name = TableBytes::from_bytes(..)?, _ => {} }
ReadTable(bytes, offset, h, table, tables) ==
  IF table \notin SchemaIds THEN Ok(tables, offset)
  ELSE LET R == RowOfId(table)
           t == TableBytes_from_bytes(R, bytes, offset, h)
       IN IF ~t.ok THEN Fail(t.off)
          ELSE Ok([tables EXCEPT ![R] = t.val], t.off)

\* the turns of the loop for the table ids lo..hi, as those of the lower half
\* and then, from where they stopped, those of the upper half
RECURSIVE ReadTableRange(_, _, _, _, _, _)
ReadTableRange(bytes, offset, h, lo, hi, tables) ==
  IF lo = hi THEN ReadTable(bytes, offset, h, lo, tables)
  ELSE LET lower == ReadTableRange(bytes, offset, h, lo, (lo + hi) \div 2, tables)
       IN IF ~lower.ok THEN Fail(lower.off)
          ELSE ReadTableRange(bytes, lower.off, h, ((lo + hi) \div 2) + 1, hi, lower.val)

\* for table in 0..header.rows.len() { match table { ... } }
ReadTables(bytes, offset, h, table, tables) ==
  ReadTableRange(bytes, offset, h, table, Cardinality(TableIds) - 1, tables)

NotEnough == [ok |-> FALSE, err |-> "NotEnough"]

TablesStream_from_bytes(bytes) ==
  LET h == TablesHeader_from_bytes(bytes, 0) IN
  IF ~h.ok THEN NotEnough
  ELSE LET t == ReadTables(bytes, h.off, h.val, 0,
                           [R \in RowTypes |-> TableBytes_default])
       IN IF ~t.ok THEN NotEnough
          ELSE [ok |-> TRUE, header |-> h.val, tables |-> t.val]

(***************************************************************************)
(* table.rs: TableReader::get, IntoIterator and TableReaderIter::next.     *)
(***************************************************************************)
TableReader_get(R, id, bytes, s) ==
  LET offset == id * row_size(R, s.header) IN
  Row_from_bytes(R, TableBytes_bytes(bytes, s.tables[R]), offset, id, s.header)

\* RowId::next: index.saturating_add(1)
RowId_next(id) == id + 1

\* let row = R::from_bytes(..)?; self.id = self.id.next(); Some(row)
Yield(it, row) ==
  IF ~row.ok THEN [item |-> None, it |-> [it EXCEPT !.done = TRUE]]
  ELSE [item |-> Some(row.val),
        it |-> [it EXCEPT !.id = RowId_next(it.id),
                          !.yielded = Append(it.yielded, row.val)]]

\* TableReaderIter::next, as the pair of the item and the iterator it leaves
TableReaderIter_next(it, bytes, s) ==
  Yield(it, Row_from_bytes(it.table, TableBytes_bytes(bytes, s.tables[it.table]),
                           it.id * row_size(it.table, s.header), it.id, s.header))

(***************************************************************************)
(* The tables streams the operations are run on: a header naming a few     *)
(* tables and their row counts, followed by a body of any length up to     *)
(* MaxBody, and the proper prefixes of such headers.                       *)
(***************************************************************************)
MaxRows == 2
MaxBody == 6

RECURSIVE LeBytes(_, _)
LeBytes(n, size) ==
  IF size = 0 THEN <<>> ELSE <<n % 256>> \o LeBytes(n \div 256, size - 1)

BitVector(S) ==
  [k \in 1..8 |->
    LET bit(j) == IF (8 * (k - 1) + j) \in S THEN Pow2(j) ELSE 0
    IN bit(0) + bit(1) + bit(2) + bit(3) + bit(4) + bit(5) + bit(6) + bit(7)]

\* the counts of the tables of id i and above, in ascending id order
RECURSIVE CountBytes(_, _)
CountBytes(cnt, i) ==
  LET left == {j \in DOMAIN cnt : j >= i}
      next == CHOOSE j \in left : \A k \in left : j <= k
  IN IF left = {} THEN <<>>
     ELSE LeBytes(cnt[next], RowCountSize) \o CountBytes(cnt, next + 1)

\* reserved, major 2, minor 0, heap sizes, reserved 1, valid, sorted, counts
HeaderBytes(hs, cnt) ==
  <<0, 0, 0, 0, 2, 0, hs, 1>> \o BitVector(DOMAIN cnt) \o BitVector({})
  \o CountBytes(cnt, 0)

\* 0x03 and 0x2d have no row type; 0x09 InterfaceImpl, 0x1a ModuleRef,
\* 0x1b TypeSpec
PresentSets == {{}, {9}, {26}, {3, 26}, {26, 45}, {9, 26}, {26, 27}}
HeapSizeBytes == {0, 1}

StreamHeaders ==
  {HeaderBytes(hs, cnt) :
     hs \in HeapSizeBytes,
     cnt \in UNION {[S -> 0..MaxRows] : S \in PresentSets}}

\* zero bytes, or zero bytes but for one byte 3
Bodies ==
  UNION {{[i \in 1..n |-> IF i = k THEN 3 ELSE 0] : k \in 0..n} : n \in 0..MaxBody}

StreamBufs ==
  {hd \o body : hd \in StreamHeaders, body \in Bodies}
  \cup UNION {{SubSeq(hd, 1, k) : k \in 0..(Len(hd) - 1)} : hd \in StreamHeaders}

TestRows == {"ModuleRow", "InterfaceImplRow", "ModuleRefRow", "TypeSpecRow"}

InitTables ==
  /\ buf \in StreamBufs
  /\ header = NoHeader
  /\ op = [name |-> "init", arg |-> 0, ty |-> "none"]
  /\ res = Absent
  /\ stream = NoStream
  /\ iter = NoIter
  /\ reader = NoReader
  /\ dir = NoDir

\* TablesStream::from_bytes(buf), once
Construct ==
  /\ stream = NoStream
  /\ stream' = TablesStream_from_bytes(buf)
  /\ op' = [op EXCEPT !.name = "from_bytes"]
  /\ UNCHANGED <<buf, header, res, iter, reader, dir>>

\* stream.<table>().get(id)
ReaderGet ==
  /\ stream.ok
  /\ \E R \in TestRows, id \in 0..(MaxRows + 1) :
       /\ op' = [name |-> "get", arg |-> id, ty |-> R]
       /\ res' = TableReader_get(R, id, buf, stream)
  /\ UNCHANGED <<buf, header, stream, iter, reader, dir>>

\* stream.<table>().into_iter()
IntoIter ==
  /\ stream.ok
  /\ \E R \in TestRows :
       /\ iter' = [table |-> R, id |-> 0, done |-> FALSE, yielded |-> <<>>]
       /\ op' = [name |-> "into_iter", arg |-> 0, ty |-> R]
  /\ UNCHANGED <<buf, header, stream, res, reader, dir>>

Advance(n) ==
  /\ iter' = n.it
  /\ res' = n.item

\* iter.next()
IterNext ==
  /\ stream.ok
  /\ iter.table \in TestRows
  /\ Advance(TableReaderIter_next(iter, buf, stream))
  /\ op' = [name |-> "next", arg |-> iter.id, ty |-> iter.table]
  /\ UNCHANGED <<buf, header, stream, reader, dir>>

NextTables == Construct \/ ReaderGet

SpecTables == InitTables /\ [][NextTables]_vars

NextRows == Construct \/ IntoIter \/ IterNext

SpecRows == InitTables /\ [][NextRows]_vars

(***************************************************************************)
(* Properties of the tables stream.                                        *)
(***************************************************************************)
\* the layout the format prescribes: the regions of the tables that have a
\* row type, in ascending id order from the given offset, each of
\* row count * row size bytes
RECURSIVE Layout(_, _, _)
Layout(h, table, offset) ==
  IF table \notin TableIds THEN {}
  ELSE IF table \notin SchemaIds THEN Layout(h, table + 1, offset)
  ELSE LET R == RowOfId(table)
           end == offset + h.rows[table] * row_size(R, h)
       IN {<<R, offset, end>>} \cup Layout(h, table + 1, end)

HeaderEnd(h) == FixedHeaderSize + RowCountSize * Cardinality(h.valid)

\* C8: after a successful construction the regions of the tables lie back to
\* back in ascending table-id order from the end of the tables header, each
\* row count * row size bytes long, none overlapping another, and all
\* inside the stream buffer.
C8_TableRegions ==
  (stream.ok /\ op.name = "from_bytes") =>
    LET h == stream.header
        lay == Layout(h, 0, HeaderEnd(h))
    IN /\ \A e \in lay :
            /\ stream.tables[e[1]] = Region(e[2], e[3])
            /\ e[3] <= Len(buf)
       /\ \A e, f \in lay :
            RowID[e[1]] < RowID[f[1]] => stream.tables[e[1]].end <= stream.tables[f[1]].beg

C8_Witness ==
  /\ stream.ok
  /\ op.name = "from_bytes"
  /\ stream.tables.ModuleRefRow.beg < stream.tables.ModuleRefRow.end
  /\ stream.tables.TypeSpecRow.beg < stream.tables.TypeSpecRow.end
  /\ stream.tables.TypeSpecRow.end < Len(buf)

\* C9: an iteration over a table yields the rows of ordinals 0, 1, ... in
\* order, never more than the declared row count, and when it has ended it
\* has yielded exactly the declared row count, whatever the row bytes are.
C9_IterYieldsAllRows ==
  (stream.ok /\ iter.table \in TestRows) =>
    LET n == stream.header.rows[RowID[iter.table]] IN
      /\ Len(iter.yielded) <= n
      /\ \A k \in 1..Len(iter.yielded) : iter.yielded[k].id = k - 1
      /\ iter.done => Len(iter.yielded) = n

\* C10: a lookup of an ordinal at or past the declared row count, and so any
\* lookup in a table whose presence bit is clear, is absent; a lookup that
\* returns a row has decoded bytes of the table's own region only.
C10_GetInRegion ==
  (stream.ok /\ op.name = "get") =>
    LET R == op.ty
        h == stream.header
        reg == stream.tables[R]
    IN /\ op.arg >= h.rows[RowID[R]] => ~res.ok
       /\ RowID[R] \notin h.valid => ~res.ok
       /\ res.ok =>
            /\ reg.beg + op.arg * row_size(R, h) >= reg.beg
            /\ reg.beg + res.off <= reg.end
            /\ res.off = (op.arg + 1) * row_size(R, h)

C10_Witness ==
  /\ stream.ok
  /\ op.name = "get"
  /\ op.ty = "ModuleRefRow"
  /\ stream.header.rows[RowID.ModuleRefRow] > 0
  /\ op.arg = stream.header.rows[RowID.ModuleRefRow]
  /\ stream.tables.TypeSpecRow.beg < stream.tables.TypeSpecRow.end
  /\ ~res.ok

(***************************************************************************)
(* bytes.rs: the three text modes of &CStr.  The value kept is the text    *)
(* without its terminator (to_bytes()).                                    *)
(***************************************************************************)
ReadNulTerminated_without_nul(b, offset) ==
  LET rem == SliceGetFrom(b, offset) IN
  IF ~IsSome(rem) THEN Fail(offset)
  ELSE LET val == FromBytesUntilNul(Unwrap(rem)) IN
    IF ~IsSome(val) THEN Fail(offset)
    ELSE Ok(Unwrap(val), offset + Len(Unwrap(val)))

\* impl FromBytes<NulTerminated> for &CStr
ReadNulTerminated(b, offset) ==
  LET rem == SliceGetFrom(b, offset) IN
  IF ~IsSome(rem) THEN Fail(offset)
  ELSE LET val == FromBytesUntilNul(Unwrap(rem)) IN
    IF ~IsSome(val) THEN Fail(offset)
    ELSE Ok(Unwrap(val), offset + Len(Unwrap(val)) + 1)

PrefixedText_from_start(len, val) ==
  IF ~val.ok THEN Fail(val.off) ELSE Ok(val.val, (len.off - 4) + len.val)

\* the cursor is set to beg + len whatever the text's own length is
PrefixedText(len, val) ==
  IF ~val.ok THEN Fail(val.off) ELSE Ok(val.val, len.off + len.val)

\* impl FromBytes<LengthPrefixed> for &CStr: the u32 length is read, and the
\* cursor moved past it, before the text is looked for
ReadLengthPrefixed(b, offset) ==
  LET len == ReadInt(b, offset, 4) IN
  IF ~len.ok THEN Fail(len.off)
  ELSE PrefixedText(len, ReadNulTerminated(b, len.off))

\* (len + 3) & !3, less len
Padding(len) == ((len + 3) - ((len + 3) % 4)) - len

ReadFourByteBoundaryPadded_aligned(b, offset) ==
  LET cstr == ReadNulTerminated(b, offset) IN
  IF ~cstr.ok THEN Fail(cstr.off)
  ELSE Ok(cstr.val, cstr.off + Padding(cstr.off))

\* impl FromBytes<FourByteBoundaryPadded> for &CStr
ReadFourByteBoundaryPadded(b, offset) ==
  LET cstr == ReadNulTerminated(b, offset) IN
  IF ~cstr.ok THEN Fail(cstr.off)
  ELSE Ok(cstr.val, cstr.off + Padding(Len(cstr.val) + 1))

(***************************************************************************)
(* bytes.rs, int!: the eight integer types.  Values are mathematical       *)
(* integers; a signed type reads its bytes as two's complement.            *)
(***************************************************************************)
IntTypes == {"i8", "u8", "i16", "u16", "i32", "u32", "i64", "u64"}
Signed == {"i8", "i16", "i32", "i64"}

\* core::mem::size_of::<$int>()
SizeOf == [i8 |-> 1, u8 |-> 1, i16 |-> 2, u16 |-> 2, i32 |-> 4, u32 |-> 4,
           i64 |-> 8, u64 |-> 8]

Complement(a) == [i \in 1..Len(a) |-> 255 - a[i]]

from_le_bytes_unsigned(name, a) == FromLeBytes(a)

\* $int::from_le_bytes
from_le_bytes(name, a) ==
  IF name \in Signed /\ a[Len(a)] >= 128
  THEN (0 - 1) - FromLeBytes(Complement(a))
  ELSE FromLeBytes(a)

IntOf(name, a) ==
  IF a.ok THEN Ok(from_le_bytes(name, a.val), a.off) ELSE Fail(a.off)

\* int!: Some($int::from_le_bytes(buf.read(offset)?))
Int_from_bytes(name, b, offset) == IntOf(name, ReadArray(b, offset, SizeOf[name]))

(***************************************************************************)
(* bytes.rs: FromBytes, as the dispatch on the type decoded and its        *)
(* context, and ByteSliceExt::read / read_with / peek / peek_with.         *)
(***************************************************************************)
SpanT(n) == [kind |-> "span", of |-> "usize", len |-> n]
ArrayT(n) == [kind |-> "array", of |-> "u8", len |-> n]
CStrT(mode) == [kind |-> "cstr", of |-> mode]
CompressedT == [kind |-> "compressed", of |-> "usize"]
RowT(R) == [kind |-> "row", of |-> R]
StructT(name) == [kind |-> "struct", of |-> name]

(***************************************************************************)
(* headers.rs: the metadata root header and the stream headers of the      *)
(* directory that follows it.  Text is the sequence of its bytes.          *)
(***************************************************************************)
\* METADATA_MAGIC = 0x424A5342
METADATA_MAGIC == 1112167234

\* impl FromBytes for MetadataHeader
MetadataHeader_from_bytes(b, offset) ==
  LET signature == ReadInt(b, offset, 4)
      major_version == ReadInt(b, signature.off, 2)
      minor_version == ReadInt(b, major_version.off, 2)
      reserved == ReadInt(b, minor_version.off, 4)
      version == ReadLengthPrefixed(b, reserved.off)
      flags == ReadInt(b, version.off, 2)
      streams == ReadInt(b, flags.off, 2)
  IN IF ~signature.ok THEN Fail(signature.off)
     ELSE IF ~major_version.ok THEN Fail(major_version.off)
     ELSE IF ~minor_version.ok THEN Fail(minor_version.off)
     ELSE IF ~reserved.ok THEN Fail(reserved.off)
     ELSE IF ~version.ok THEN Fail(version.off)
     ELSE IF ~flags.ok THEN Fail(flags.off)
     ELSE IF ~streams.ok THEN Fail(streams.off)
     ELSE Ok([signature |-> signature.val, major_version |-> major_version.val,
              minor_version |-> minor_version.val, reserved |-> reserved.val,
              version |-> version.val, flags |-> flags.val,
              streams |-> streams.val], streams.off)

\* impl FromBytes for MetadataStreamHeader
MetadataStreamHeader_from_bytes(b, offset) ==
  LET off == ReadInt(b, offset, 4)
      size == ReadInt(b, off.off, 4)
      name == ReadFourByteBoundaryPadded(b, size.off)
  IN IF ~off.ok THEN Fail(off.off)
     ELSE IF ~size.ok THEN Fail(size.off)
     ELSE IF ~name.ok THEN Fail(name.off)
     ELSE Ok([offset |-> off.val, size |-> size.val, name |-> name.val], name.off)

CStr_from_bytes(mode, b, offset) ==
  CASE mode = "NulTerminated" -> ReadNulTerminated(b, offset)
    [] mode = "LengthPrefixed" -> ReadLengthPrefixed(b, offset)
    [] mode = "FourByteBoundaryPadded" -> ReadFourByteBoundaryPadded(b, offset)

Struct_from_bytes(name, b, offset) ==
  CASE name = "MetadataTablesHeader" -> TablesHeader_from_bytes(b, offset)
    [] name = "MetadataStreamHeader" -> MetadataStreamHeader_from_bytes(b, offset)

\* F::from_bytes(self, offset, ctx)
FromBytes(ty, b, offset, h) ==
  CASE ty.kind = "int" -> Int_from_bytes(ty.of, b, offset)
    [] ty.kind = "span" -> ReadSpan(b, offset, ty.len)
    [] ty.kind = "array" -> ReadArray(b, offset, ty.len)
    [] ty.kind = "cstr" -> CStr_from_bytes(ty.of, b, offset)
    [] ty.kind = "compressed" -> ReadCompressedLength(b, offset)
    [] ty.kind = "row" -> Row_from_bytes(ty.of, b, offset, 0, h)
    [] ty.kind = "struct" -> Struct_from_bytes(ty.of, b, offset)
    [] OTHER -> Id_from_bytes(ty, b, offset, h)

\* read / read_with: the result and the caller's cursor after the call
Read(ty, b, offset, h) == FromBytes(ty, b, offset, h)

Peeked_through(offset, r) == r

\* let mut offset = *offset: the decode moves a copy of the cursor
Peeked(offset, r) == IF r.ok THEN Ok(r.val, offset) ELSE Fail(offset)

\* peek / peek_with
Peek(ty, b, offset, h) == Peeked(offset, FromBytes(ty, b, offset, h))

(***************************************************************************)
(* The decode specification: Init fixes a buffer, a cursor (op.arg) and    *)
(* the type decoded (op.ty); read and peek are applied to them in any      *)
(* order, op.prev keeping the call before the last and what it returned.   *)
(* Integer buffers are the little-endian bytes of a value (op.src).        *)
(***************************************************************************)
\* terminator; a small length, an unmapped tag, a letter; a two-byte prefix
DecodeAlphabet == {0, 3, 129}
\* a byte that can be the top byte of a 32-bit field is below 0x80: the
\* values decoded stay below 2^31, the largest integer the checker represents
DecodeBufs ==
  {b \in UNION {[1..n -> DecodeAlphabet] : n \in 0..MaxLen} :
     \A i \in 4..Len(b) : b[i] < 128}

DecodeTypes ==
  {IntT(n) : n \in IntTypes}
  \cup {SpanT(n) : n \in 0..MaxPast}
  \cup {ArrayT(2), ArrayT(GuidSize)}
  \cup {CStrT(m) : m \in {"NulTerminated", "LengthPrefixed", "FourByteBoundaryPadded"}}
  \cup {CompressedT, RowT("InterfaceImplRow"), RowT("ModuleRefRow"),
        StructT("MetadataTablesHeader")}
  \cup {StringId, RowIdT("TypeDefRow"), CodedT("TypeDefOrRef"),
        CodedT("MethodDefOrRef")}

IntSamples(name) ==
  CASE name = "u8" -> {0, 1, 127, 128, 255}
    [] name = "i8" -> {0 - 128, 0 - 1, 0, 1, 127}
    [] name = "u16" -> {0, 255, 256, 32767, 32768, 65535}
    [] name = "i16" -> {0 - 32768, 0 - 257, 0 - 1, 0, 255, 32767}
    [] name = "u32" -> {0, 65535, 65536, 16777216, 2147483647}
    [] name = "i32" -> {0 - 2147483647 - 1, 0 - 65537, 0 - 1, 0, 65536, 2147483647}
    [] name = "u64" -> {0, 65535, 65536, 16777216, 2147483647}
    [] name = "i64" -> {0 - 2147483647 - 1, 0 - 65537, 0 - 1, 0, 65536, 2147483647}

\* v.to_le_bytes(): the base-256 digits of v, or of v + 2^(8 * size)
to_le_bytes(name, v) ==
  IF v < 0 THEN Complement(LeBytes((0 - 1) - v, SizeOf[name]))
  ELSE LeBytes(v, SizeOf[name])

\* tables headers, whole, with a byte behind them, and a byte short
TablesHeaderBufs ==
  StreamHeaders \cup {hd \o <<1>> : hd \in StreamHeaders}
  \cup {SubSeq(hd, 1, Len(hd) - 1) : hd \in StreamHeaders}

\* a directory entry behind zero to two bytes: offset 1, size 2, a name of
\* zero to four bytes with its terminator, and what follows it
EntryBufs ==
  {lead \o <<1, 0, 0, 0, 2, 0, 0, 0>> \o name \o tail :
     lead \in {<<>>, <<3>>, <<3, 3>>},
     name \in {<<0>>, <<3, 0>>, <<3, 3, 3, 0>>, <<3, 3, 3, 3, 0>>, <<3, 3>>},
     tail \in {<<>>, <<0, 0, 0>>, <<0, 0, 0, 3, 0, 0, 0>>}}

InitDecode ==
  /\ \/ /\ buf \in DecodeBufs
        /\ \E a \in Positions(buf), ty \in DecodeTypes :
             op = [name |-> "init", arg |-> a, ty |-> ty, src |-> None, prev |-> <<>>]
     \/ \E n \in IntTypes : \E v \in IntSamples(n), tail \in {<<>>, <<129>>} :
          /\ buf = to_le_bytes(n, v) \o tail
          /\ op = [name |-> "init", arg |-> 0, ty |-> IntT(n), src |-> Some(v),
                   prev |-> <<>>]
     \/ /\ buf \in TablesHeaderBufs
        /\ op = [name |-> "init", arg |-> 0, ty |-> StructT("MetadataTablesHeader"),
                 src |-> None, prev |-> <<>>]
     \/ /\ buf \in EntryBufs
        /\ \E a \in 0..MaxPast :
             op = [name |-> "init", arg |-> a, ty |-> StructT("MetadataStreamHeader"),
                   src |-> None, prev |-> <<>>]
  /\ header = Header(0, OneHot(0, 3, 3))
  /\ res = Absent
  /\ stream = NoStream
  /\ iter = NoIter
  /\ reader = NoReader
  /\ dir = NoDir

Called(name, result) ==
  /\ op' = [op EXCEPT !.name = name, !.prev = <<op.name, res>>]
  /\ res' = result
  /\ UNCHANGED <<buf, header, stream, iter, reader, dir>>

DoRead == Called("read", Read(op.ty, buf, op.arg, header))

DoPeek == Called("peek", Peek(op.ty, buf, op.arg, header))

NextDecode == DoRead \/ DoPeek

SpecDecode == InitDecode /\ [][NextDecode]_vars

(***************************************************************************)
(* Properties of the decode framework.                                     *)
(***************************************************************************)
\* the decodes made of one checked read
Atomic(ty) ==
  \/ ty.kind \in {"int", "span", "array", "compressed", "heap", "rowid"}
  \/ ty.kind = "cstr" /\ ty.of \in {"NulTerminated", "FourByteBoundaryPadded"}

MetadataStreamHeader_data_from_offset(h, metadata) ==
  SliceGetFrom(metadata, h.offset)

\* MetadataStreamHeader::data; beg.saturating_add(size) is the plain sum of
\* two u32 values
MetadataStreamHeader_data(h, metadata) ==
  SliceGet(metadata, h.offset, h.offset + h.size)

(***************************************************************************)
(* metadata/mod.rs: MetadataReader.                                        *)
(***************************************************************************)
BadSignature(v) == [ok |-> FALSE, err |-> "BadSignature", signature |-> v]
ReaderNotEnough == [ok |-> FALSE, err |-> "NotEnough"]

\* the signature check, on the header as decoded
Verified(bytes, h) ==
  IF ~h.ok THEN ReaderNotEnough
  ELSE IF h.val.signature # METADATA_MAGIC THEN BadSignature(h.val.signature)
  ELSE [ok |-> TRUE, header |-> h.val, streams |-> h.off]

MetadataReader_from_bytes_signature_first(bytes) ==
  IF ReadInt(bytes, 0, 4).ok /\ ReadInt(bytes, 0, 4).val # METADATA_MAGIC
  THEN BadSignature(ReadInt(bytes, 0, 4).val)
  ELSE Verified(bytes, MetadataHeader_from_bytes(bytes, 0))

\* MetadataReader::from_bytes
MetadataReader_from_bytes(bytes) ==
  Verified(bytes, MetadataHeader_from_bytes(bytes, 0))

MetadataReader_streams_resumed(r) ==
  [len |-> r.header.streams, offset |-> dir.offset, yielded |-> <<>>]

\* MetadataReader::streams
MetadataReader_streams(r) ==
  [len |-> r.header.streams, offset |-> r.streams, yielded |-> <<>>]

(***************************************************************************)
(* streams/mod.rs: MetadataStreamIter::next.  An item is Ok of a stream    *)
(* or Err of an error; entry is the directory entry it was made from.      *)
(***************************************************************************)
\* "#~", "#US", "#Blob", "#GUID", "#Strings"
StreamName ==
  [Tables |-> <<35, 126>>, UserStrings |-> <<35, 85, 83>>,
   Blobs |-> <<35, 66, 108, 111, 98>>, Guids |-> <<35, 71, 85, 73, 68>>,
   Strings |-> <<35, 83, 116, 114, 105, 110, 103, 115>>]

\* a heap, or the tables stream, over its bytes
StreamOk(kind, data) == [ok |-> TRUE, kind |-> kind, data |-> data]

\* MetadataStream::Unrecognized { header, data }
Unrecognized(h, data) ==
  [ok |-> TRUE, kind |-> "Unrecognized", entry |-> h, data |-> data]

\* MetadataStreamReadError::MissingData { header }
MissingData(h) == [ok |-> FALSE, kind |-> "MissingData", entry |-> h]

\* Tables(match TablesStream::from_bytes(data) { Ok(..), Err(err) => return .. })
TablesItem(data, tables) ==
  IF tables.ok THEN StreamOk("Tables", data) ELSE [ok |-> FALSE, kind |-> tables.err]

\* match header.name.to_bytes() { ... }
Dispatch(h, data) ==
  CASE h.name = StreamName.Tables -> TablesItem(data, TablesStream_from_bytes(data))
    [] h.name = StreamName.UserStrings -> StreamOk("UserStrings", data)
    [] h.name = StreamName.Blobs -> StreamOk("Blobs", data)
    [] h.name = StreamName.Guids -> StreamOk("Guids", data)
    [] h.name = StreamName.Strings -> StreamOk("Strings", data)
    [] OTHER -> Unrecognized(h, data)

Sliced_ending(h, data) ==
  IF IsSome(data) THEN Some(Dispatch(h, Unwrap(data))) ELSE None

\* match header.data(self.bytes) { Some(data) => .., None => MissingData }
Sliced(h, data) ==
  IF IsSome(data) THEN Some(Dispatch(h, Unwrap(data)))
  ELSE Some(MissingData(h))

\* what a call that took an entry off the count returns and leaves; yielded
\* keeps what each such call returned
Returned_keeping_count(d, offset, item) ==
  [item |-> item,
   it |-> [d EXCEPT !.offset = offset, !.yielded = Append(d.yielded, item)]]

Returned(d, offset, item) ==
  [item |-> item,
   it |-> [d EXCEPT !.len = d.len - 1, !.offset = offset,
                    !.yielded = Append(d.yielded, item)]]

\* the entry header as read at the iterator's offset: the iterator keeps
\* the offset the read left, also when the read failed
Entry(d, bytes, h) ==
  IF ~h.ok THEN Returned(d, h.off, None)
  ELSE Returned(d, h.off, Sliced(h.val, MetadataStreamHeader_data(h.val, bytes)))

\* MetadataStreamIter::next, as the pair of the item and the iterator it leaves
MetadataStreamIter_next(d, bytes) ==
  IF d.len = 0 THEN [item |-> None, it |-> d]
  ELSE Entry(d, bytes, MetadataStreamHeader_from_bytes(bytes, d.offset))

(***************************************************************************)
(* The metadata roots the reader is run on: a root header, a directory of  *)
(* up to MaxStreams entries, and a payload that is an empty tables stream  *)
(* and two more bytes; the header may declare one entry more than there    *)
(* are.  Also the proper prefixes of a root header, roots with another     *)
(* signature, and the root header of the format's example.                 *)
(***************************************************************************)
MaxStreams == 2

\* "#Pdb"
PdbName == <<35, 80, 100, 98>>

Zeros(n) == [i \in 1..n |-> 0]

\* a name, its terminator, and zeros up to the next multiple of four
PaddedName(name) == name \o Zeros(4 - (Len(name) % 4))

EntryBytes(e, offset, size) ==
  LeBytes(offset, 4) \o LeBytes(size, 4) \o PaddedName(e[1])

\* version text "v1", terminated, in a field of four bytes; no flags
RootBytes(signature, count) ==
  LeBytes(signature, 4) \o <<1, 0, 1, 0, 0, 0, 0, 0>> \o <<4, 0, 0, 0, 118, 49, 0, 0>>
  \o <<0, 0>> \o LeBytes(count, 2)

Payload == HeaderBytes(0, <<>>) \o <<7, 0>>

\* a name and where its range lies: the first bytes of the root, the tables
\* stream of the payload, the last two bytes, two bytes from the last byte,
\* nothing from past the end
EntryKinds ==
  {<<StreamName.Tables, "payload">>, <<StreamName.Tables, "tail">>,
   <<StreamName.UserStrings, "head">>, <<StreamName.Blobs, "tail">>,
   <<StreamName.Guids, "head">>, <<StreamName.Strings, "tail">>,
   <<StreamName.Strings, "past">>, <<PdbName, "head">>, <<PdbName, "over">>}

RECURSIVE EntriesLen(_)
EntriesLen(es) ==
  IF Len(es) = 0 THEN 0 ELSE 8 + Len(PaddedName(es[1][1])) + EntriesLen(Tail(es))

RangeOf(e, total) ==
  CASE e[2] = "head" -> <<0, 4>>
    [] e[2] = "payload" -> <<total - Len(Payload), FixedHeaderSize>>
    [] e[2] = "tail" -> <<total - 2, 2>>
    [] e[2] = "over" -> <<total - 1, 2>>
    [] e[2] = "past" -> <<total + 1, 0>>

RECURSIVE DirectoryBytes(_, _)
DirectoryBytes(es, total) ==
  IF Len(es) = 0 THEN <<>>
  ELSE EntryBytes(es[1], RangeOf(es[1], total)[1], RangeOf(es[1], total)[2])
       \o DirectoryBytes(Tail(es), total)

Root(signature, es, count) ==
  RootBytes(signature, count)
  \o DirectoryBytes(es, Len(RootBytes(signature, count)) + EntriesLen(es) + Len(Payload))
  \o Payload

Directories == UNION {[1..n -> EntryKinds] : n \in 0..MaxStreams}

\* 53 42 4A 42 01 00 01 00 00 00 00 00 04 00 00 00 76 31 2E 30 00 00 00 00 00 01 00
ScenarioB ==
  <<83, 66, 74, 66, 1, 0, 1, 0, 0, 0, 0, 0, 4, 0, 0, 0, 118, 49, 46, 48,
    0, 0, 0, 0, 0, 1, 0>>

\* what cannot be read as an entry: nothing, half an offset, half a size, a
\* name without a terminator, and twenty bytes without a zero byte
CutTails ==
  {<<>>, <<1, 0>>, <<1, 0, 0, 0, 2, 0>>, <<1, 0, 0, 0, 2, 0, 0, 0, 35>>,
   [i \in 1..20 |-> 35]}

\* roots that declare more entries than they hold: none or one whole entry,
\* and a rest that cannot be read as one
CutRoots ==
  {RootBytes(METADATA_MAGIC, MaxStreams + 1) \o lead \o tail :
     lead \in {<<>>, EntryBytes(<<PdbName, "head">>, 0, 4)}, tail \in CutTails}

RootBufs ==
  {Root(METADATA_MAGIC, es, Len(es) + more) : es \in Directories, more \in 0..1}
  \cup CutRoots
  \cup {Root(METADATA_MAGIC + 1, es, Len(es)) : es \in {e \in Directories : Len(e) <= 1}}
  \cup UNION {{SubSeq(RootBytes(sg, 1), 1, k) : k \in 0..(Len(RootBytes(sg, 1)) - 1)} :
                sg \in {METADATA_MAGIC, METADATA_MAGIC + 1}}
  \cup {ScenarioB}

InitDir ==
  /\ buf \in RootBufs
  /\ header = NoHeader
  /\ op = [name |-> "init", arg |-> 0, ty |-> "none", earlier |-> NoDir]
  /\ res = Absent
  /\ stream = NoStream
  /\ iter = NoIter
  /\ reader = NoReader
  /\ dir = NoDir

\* MetadataReader::from_bytes(buf), once
ReaderFromBytes ==
  /\ reader = NoReader
  /\ reader' = MetadataReader_from_bytes(buf)
  /\ op' = [op EXCEPT !.name = "from_bytes"]
  /\ UNCHANGED <<buf, header, res, stream, iter, dir>>

\* reader.streams(); the sequence of the call before stays alive, as
\* op.earlier
Streams ==
  /\ reader.ok
  /\ dir' = MetadataReader_streams(reader)
  /\ op' = [op EXCEPT !.name = "streams", !.earlier = dir]
  /\ UNCHANGED <<buf, header, res, stream, iter, reader>>

Stepped(n) ==
  /\ dir' = n.it
  /\ res' = n.item

\* streams.next()
DirNext ==
  /\ reader.ok
  /\ op.name \in {"streams", "next", "next_earlier"}
  /\ Stepped(MetadataStreamIter_next(dir, buf))
  /\ op' = [op EXCEPT !.name = "next", !.arg = dir.offset]
  /\ UNCHANGED <<buf, header, stream, iter, reader>>

SteppedEarlier(n) ==
  /\ op' = [op EXCEPT !.name = "next_earlier", !.arg = op.earlier.offset,
                      !.earlier = n.it]
  /\ res' = n.item

\* next() on the sequence an earlier streams() call returned
EarlierNext ==
  /\ reader.ok
  /\ op.earlier # NoDir
  /\ SteppedEarlier(MetadataStreamIter_next(op.earlier, buf))
  /\ UNCHANGED <<buf, header, stream, iter, reader, dir>>

\* buf.read::<MetadataHeader>(&mut 0), the decode from_bytes starts with
ReadHeader ==
  /\ op.name = "init"
  /\ res' = MetadataHeader_from_bytes(buf, 0)
  /\ op' = [op EXCEPT !.name = "read_header"]
  /\ UNCHANGED <<buf, header, stream, iter, reader, dir>>

NextDir == ReaderFromBytes \/ Streams \/ DirNext \/ EarlierNext \/ ReadHeader

SpecDir == InitDir /\ [][NextDir]_vars

(***************************************************************************)
(* Properties of the stream directory.  The entries are read off the raw   *)
(* bytes here: a u32 offset, a u32 size, and a name that ends at the first *)
(* zero byte and is padded, with its terminator, to a multiple of four.    *)
(***************************************************************************)
\* the index of the first zero byte of buf at or after index s, 0 if none
NameEnd(s) ==
  LET zs == {j \in s..Len(buf) : buf[j] = 0}
  IN IF zs = {} THEN 0 ELSE CHOOSE j \in zs : \A k \in zs : j <= k

\* an entry starting at byte s can be read
Readable(s) == s + 8 <= Len(buf) /\ NameEnd(s + 9) # 0

DirEntry(s) ==
  [offset |-> LeValue(buf, s, 4), size |-> LeValue(buf, s + 4, 4),
   name |-> SubSeq(buf, s + 9, NameEnd(s + 9) - 1)]

\* where the entry after the one at s starts
Following(s) ==
  LET n == (NameEnd(s + 9) - (s + 9)) + 1
  IN s + 8 + (IF n % 4 = 0 THEN n ELSE n + (4 - (n % 4)))

\* where the i-th entry of the directory starts, -1 if an earlier one
\* cannot be read
RECURSIVE EntryStart(_)
EntryStart(i) ==
  IF i = 1 THEN 16 + LeValue(buf, 12, 4) + 4
  ELSE LET s == EntryStart(i - 1)
       IN IF s < 0 \/ ~Readable(s) THEN -1 ELSE Following(s)

InRange(e) == e.offset + e.size <= Len(buf)

Recognised == {StreamName[k] : k \in DOMAIN StreamName}

\* item is what the entry e gives: a stream over the entry's bytes, of the
\* entry's kind, or an error
OfEntry(item, e) ==
  IF item.ok
  THEN /\ item.data = SubSeq(buf, e.offset + 1, e.offset + e.size)
       /\ IF e.name \in Recognised
          THEN \E k \in DOMAIN StreamName : item.kind = k /\ e.name = StreamName[k]
          ELSE item.kind = "Unrecognized" /\ item.entry = e
  ELSE IF item.kind = "MissingData" THEN item.entry = e /\ ~InRange(e)
  ELSE e.name = StreamName.Tables

\* C12: an entry whose byte range falls outside the root buffer yields a
\* MissingData error carrying that entry's header, and the call after it
\* returns the item of the following entry.
C12_MissingData ==
  \A i \in 1..Len(dir.yielded) :
    LET s == EntryStart(i) IN
    (s >= 0 /\ Readable(s)) =>
      /\ (~InRange(DirEntry(s)) =>
           dir.yielded[i] = Some([ok |-> FALSE, kind |-> "MissingData",
                                  entry |-> DirEntry(s)]))
      /\ IsSome(dir.yielded[i]) /\ OfEntry(Unwrap(dir.yielded[i]), DirEntry(s))
      /\ (Len(dir.yielded) = i => dir.offset = Following(s))

\* an out-of-range entry was reported and the call after it yielded a stream
C12_Witness ==
  /\ Len(dir.yielded) = 2
  /\ IsSome(dir.yielded[1]) /\ IsSome(dir.yielded[2])
  /\ ~InRange(DirEntry(EntryStart(1)))
  /\ Unwrap(dir.yielded[1]).kind = "MissingData"
  /\ Unwrap(dir.yielded[2]).ok
  /\ OfEntry(Unwrap(dir.yielded[2]), DirEntry(EntryStart(2)))
  /\ res = dir.yielded[2]

\* C13: an entry whose name is not one of the five recognised names and
\* whose range lies in the root buffer yields an Unrecognized item with the
\* entry's header and exactly the bytes root[offset .. offset + size], not an
\* error; the entries after it are yielded in order.
C13_Unrecognized ==
  \A i \in 1..Len(dir.yielded) :
    LET s == EntryStart(i) IN
    (s >= 0 /\ Readable(s)) =>
      /\ (DirEntry(s).name \notin Recognised /\ InRange(DirEntry(s))) =>
           dir.yielded[i] =
             Some([ok |-> TRUE, kind |-> "Unrecognized", entry |-> DirEntry(s),
                   data |-> SubSeq(buf, DirEntry(s).offset + 1,
                                   DirEntry(s).offset + DirEntry(s).size)])
      /\ IsSome(dir.yielded[i]) /\ OfEntry(Unwrap(dir.yielded[i]), DirEntry(s))

\* a #Pdb entry was yielded as Unrecognized with four bytes, and the entry
\* after it was yielded as well
C13_Witness ==
  /\ Len(dir.yielded) = 2
  /\ IsSome(dir.yielded[1]) /\ IsSome(dir.yielded[2])
  /\ Unwrap(dir.yielded[1]).kind = "Unrecognized"
  /\ Unwrap(dir.yielded[1]).entry.name = PdbName
  /\ Len(Unwrap(dir.yielded[1]).data) = 4
  /\ Len(buf) > 4
  /\ OfEntry(Unwrap(dir.yielded[2]), DirEntry(EntryStart(2)))

(***************************************************************************)
(* Properties of the root header.                                          *)
(***************************************************************************)
\* "v1.0"
V10 == <<118, 49, 46, 48>>

\* C14: the 27 bytes 53 42 4A 42 01 00 01 00 00 00 00 00 04 00 00 00 76 31
\* 2E 30 00 00 00 00 00 01 00 decode as a root header to signature
\* 0x424A5342, major version 1, minor version 1, version text "v1.0" and
\* stream count 1.
C14_ScenarioB ==
  (buf = ScenarioB /\ op.name = "read_header") =>
    /\ res.ok
    /\ res.val.signature = METADATA_MAGIC
    /\ res.val.major_version = 1
    /\ res.val.minor_version = 1
    /\ res.val.version = V10
    /\ res.val.streams = 1

\* C14, amended: the same 27 bytes decode to signature 0x424A4253 (the bytes
\* 53 42 4A 42 read little-endian), major version 1, minor version 1, version
\* text "v1.0" and stream count 0 (the bytes at 22 and 23, the version field
\* ending at 16 + 4 and the flags taking 20 and 21).
C14_ScenarioB_Decoded ==
  (buf = ScenarioB /\ op.name = "read_header") =>
    /\ res.ok
    /\ res.val.signature = 66 * 16777216 + 74 * 65536 + 66 * 256 + 83
    /\ res.val.major_version = 1
    /\ res.val.minor_version = 1
    /\ res.val.version = V10
    /\ res.val.streams = 0

C14_Witness == buf = ScenarioB /\ op.name = "read_header" /\ res.ok /\ res.off = 24

\* the root header can be read in full: the fixed fields up to the version
\* length, a terminated version text, and the flags and stream count behind
\* the version field
HeaderFits ==
  /\ Len(buf) >= 16
  /\ NameEnd(17) # 0
  /\ 16 + LeValue(buf, 12, 4) + 4 <= Len(buf)

\* C15: MetadataReader::from_bytes fails with BadSignature(v) exactly when
\* the header decodes in full and its signature v is not 0x424A5342, fails
\* with NotEnough exactly when the buffer is too short for the header, and
\* succeeds otherwise.
C15_ReaderErrors ==
  reader # NoReader =>
    /\ (\A v \in {METADATA_MAGIC, METADATA_MAGIC + 1, LeValue(ScenarioB, 0, 4)} :
          reader = [ok |-> FALSE, err |-> "BadSignature", signature |-> v]
            <=> (HeaderFits /\ LeValue(buf, 0, 4) = v /\ v # METADATA_MAGIC))
    /\ (~reader.ok /\ reader.err = "BadSignature") => HeaderFits
    /\ (~reader.ok /\ reader.err = "NotEnough") <=> ~HeaderFits
    /\ reader.ok <=> (HeaderFits /\ LeValue(buf, 0, 4) = METADATA_MAGIC)

\* a header cut short behind a wrong signature was reported as NotEnough
C15_Witness ==
  /\ Len(buf) >= 4
  /\ LeValue(buf, 0, 4) # METADATA_MAGIC
  /\ ~HeaderFits
  /\ ~reader.ok /\ reader.err = "NotEnough"

(***************************************************************************)
(* Properties of the tables header.  The valid bits and the counts are     *)
(* read off the raw bytes here: bit t of the u64 at byte 8, and the k-th   *)
(* u32 behind the 24 fixed bytes.                                          *)
(***************************************************************************)
ValidBits == {t \in 0..63 : (buf[9 + (t \div 8)] \div (2 ^ (t % 8))) % 2 = 1}

\* how many set bits lie below bit t
Rank(t) == Cardinality({u \in ValidBits : u < t})

\* C16: a successful decode of the tables header has read one u32 row count
\* for each set bit of the valid bit vector, in ascending bit order, into
\* the slot of that bit; the slots of clear bits hold 0; the cursor is at
\* 24 + 4 * popcount(valid).
C16_HeaderCounts ==
  (op.name = "read" /\ op.ty = StructT("MetadataTablesHeader") /\ op.arg = 0 /\ res.ok) =>
    /\ \A t \in 0..63 :
         res.val.rows[t] =
           IF t \in ValidBits THEN LeValue(buf, 24 + 4 * Rank(t), 4) ELSE 0
    /\ res.off = 24 + 4 * Cardinality(ValidBits)

\* a header with two tables of different, nonzero row counts was decoded
C16_Witness ==
  /\ op.name = "read" /\ op.ty = StructT("MetadataTablesHeader") /\ res.ok
  /\ \E t, u \in ValidBits :
       /\ t < u
       /\ res.val.rows[t] # 0 /\ res.val.rows[u] # 0
       /\ res.val.rows[t] # res.val.rows[u]
  /\ res.off < Len(buf)

(***************************************************************************)
(* Properties of peek and of the integer decodes.                          *)
(***************************************************************************)
Calls == {"peek", "read"}

\* C18: a peek leaves the cursor where it was; two peeks at the same cursor
\* give the same result; and that result is the one the read at that cursor
\* gives.
C18_Peek ==
  /\ op.name = "peek" => res.off = op.arg
  /\ (op.name \in Calls /\ op.prev # <<>>) =>
       ((op.prev[1] \in Calls /\ "peek" \in {op.name, op.prev[1]}) =>
          /\ res.ok = op.prev[2].ok
          /\ res.ok => res.val = op.prev[2].val)

\* a read that moved the cursor came after a peek that had decoded the same
\* value and left the cursor alone
C18_Witness ==
  /\ op.name = "read" /\ op.prev # <<>>
  /\ op.prev[1] = "peek"
  /\ res.ok /\ res.off > op.arg
  /\ op.prev[2].ok /\ op.prev[2].off = op.arg /\ op.prev[2].val = res.val

\* C20: for each of the eight integer types and a value v of the type,
\* reading the type at cursor 0 from the little-endian bytes of v returns v
\* and leaves the cursor at the type's width in bytes.
C20_IntRoundTrip ==
  (op.name = "read" /\ IsSome(op.src)) =>
    /\ res.ok
    /\ res.val = Unwrap(op.src)
    /\ res.off = SizeOf[op.ty.of]

\* a negative i16 was read back from its two bytes, with a byte behind them
C20_Witness ==
  /\ op.name = "read" /\ IsSome(op.src)
  /\ op.ty.of = "i16" /\ Unwrap(op.src) < 0
  /\ res.ok /\ res.val = Unwrap(op.src) /\ res.off = 2 /\ Len(buf) = 3

(***************************************************************************)
(* Properties of the strings heap.                                         *)
(***************************************************************************)
\* the indexes of the zero bytes of buf at or after offset id
ZerosFrom(id) == {j \in (id + 1)..Len(buf) : buf[j] = 0}

\* C19: Strings.get(id) returns the bytes from offset id up to the first
\* zero byte at or after id, and is absent when id is at or past the heap
\* length or no zero byte lies between id and the heap end.
C19_StringsGet ==
  op.name = "strings_get" =>
    IF op.arg >= Len(buf) \/ ZerosFrom(op.arg) = {}
    THEN ~res.ok
    ELSE /\ res.ok
         /\ \E z \in ZerosFrom(op.arg) :
              /\ \A k \in ZerosFrom(op.arg) : z <= k
              /\ res.val = SubSeq(buf, op.arg + 1, z - 1)
              /\ res.beg = op.arg /\ res.end = z

\* a text of at least one byte was found at an id behind an earlier
\* terminator
C19_Witness ==
  /\ op.name = "strings_get" /\ res.ok
  /\ op.arg > 0 /\ Len(res.val) > 0
  /\ \E j \in 1..op.arg : buf[j] = 0

(***************************************************************************)
(* Offset arithmetic at the width of the target's usize.  A word is the    *)
(* sequence of its 16-bit limbs, lowest first: two limbs on a target with  *)
(* a 32-bit usize, four on one with a 64-bit usize.  The plain + and * of  *)
(* the source panic on overflow in a build with overflow checks (the debug *)
(* profile) and wrap in one without (the release profile).                 *)
(***************************************************************************)
Limb == Pow2(16)

WordLimbs == {2, 4}
Builds == {"debug", "release"}

\* a u32 (or a smaller value) as usize
Word(lo, hi, w) == [i \in 1..w |-> IF i = 1 THEN lo ELSE IF i = 2 THEN hi ELSE 0]

\* usize::MAX
WordMax(w) == [i \in 1..w |-> Limb - 1]

RECURSIVE CarryInto(_, _, _)
CarryInto(a, b, i) ==
  IF i = 1 THEN 0 ELSE (a[i - 1] + b[i - 1] + CarryInto(a, b, i - 1)) \div Limb

\* a.wrapping_add(b)
WrappingAdd(a, b) == [i \in 1..Len(a) |-> (a[i] + b[i] + CarryInto(a, b, i)) % Limb]
AddOverflows(a, b) == CarryInto(a, b, Len(a) + 1) # 0

\* a * n for a row size n
RECURSIVE MulCarryInto(_, _, _)
MulCarryInto(a, n, i) ==
  IF i = 1 THEN 0 ELSE (a[i - 1] * n + MulCarryInto(a, n, i - 1)) \div Limb

WrappingMul(a, n) == [i \in 1..Len(a) |-> (a[i] * n + MulCarryInto(a, n, i)) % Limb]
MulOverflows(a, n) == MulCarryInto(a, n, Len(a) + 1) # 0

\* a.saturating_mul(n)
saturating_mul(a, n) == IF MulOverflows(a, n) THEN WordMax(Len(a)) ELSE WrappingMul(a, n)

\* a <= b
WordLe(a, b) ==
  a = b \/ \E i \in 1..Len(a) : a[i] < b[i] /\ \A j \in (i + 1)..Len(a) : a[j] = b[j]

\* slice.get(beg..end).is_some() on a slice of len bytes
InSlice(len, beg, end) == WordLe(beg, end) /\ WordLe(end, len)

\* what a call comes to: a value, absent, or a panic; wrapped tells that a
\* sum or product in it wrapped around
Outcome(ok, wrapped) == [ok |-> ok, panic |-> FALSE, wrapped |-> wrapped]
Panic == [ok |-> FALSE, panic |-> TRUE, wrapped |-> FALSE]

\* the result of a + or * that overflowed, by the build
Overflowed(build, wrapped) == IF build = "debug" THEN Panic ELSE wrapped

\* GuidsHeap::get: let end = beg + 16; self.0.get(beg..end)
GuidsHeap_get_word(len, id, build) ==
  LET end == WrappingAdd(id, Word(GuidSize, 0, Len(id)))
  IN IF AddOverflows(id, Word(GuidSize, 0, Len(id)))
     THEN Overflowed(build, Outcome(InSlice(len, id, end), TRUE))
     ELSE Outcome(InSlice(len, id, end), FALSE)

\* bytes.get(*offset..*offset + size) for the size already computed
Slice_word(len, offset, size, build) ==
  IF AddOverflows(offset, size)
  THEN Overflowed(build, Outcome(InSlice(len, offset, WrappingAdd(offset, size)), TRUE))
  ELSE Outcome(InSlice(len, offset, WrappingAdd(offset, size)), FALSE)

\* TableBytes::from_bytes: size = len.saturating_mul(row_size), then the slice
TableBytes_from_bytes_word(len, offset, count, n, build) ==
  Slice_word(len, offset, saturating_mul(count, n), build)

\* R::from_bytes at the offset computed: the row is there when the n bytes
\* from offset lie in the table's bytes (the field reads saturate)
Row_word(len, offset, n, wrapped) ==
  IF AddOverflows(offset, Word(n, 0, Len(offset))) THEN Outcome(FALSE, wrapped)
  ELSE Outcome(WordLe(WrappingAdd(offset, Word(n, 0, Len(offset))), len), wrapped)

\* TableReader::get: let mut offset = id.index() * R::row_size(self.header)
TableReader_get_word(len, id, n, build) ==
  IF MulOverflows(id, n)
  THEN Overflowed(build, Row_word(len, WrappingMul(id, n), n, TRUE))
  ELSE Row_word(len, WrappingMul(id, n), n, FALSE)

\* ids, counts and offsets around the carries of a u32
WordSamples(w) ==
  {Word(lo, hi, w) : lo \in {0, 1, 24, Limb - GuidSize, Limb - 1},
                     hi \in {0, 1, Pow2(15), Limb - 1}}

\* lengths of the bytes looked into
WordLens(w) == {Word(n, 0, w) : n \in {0, GuidSize, 48}}

RowSizes == {2, 6}

InitWords ==
  /\ buf = <<>>
  /\ header = NoHeader
  /\ \E w \in WordLimbs, build \in Builds, n \in RowSizes :
       \E a \in WordSamples(w), len \in WordLens(w) :
         op = [name |-> "init", arg |-> a, len |-> len, n |-> n, build |-> build]
  /\ res = Absent
  /\ stream = NoStream
  /\ iter = NoIter
  /\ reader = NoReader
  /\ dir = NoDir

\* heap.get(id) on a guid heap of op.len bytes
DoGuidsGetWord == Apply("guids_get", GuidsHeap_get_word(op.len, op.arg, op.build))

\* TableBytes::from_bytes at the end of an empty tables header, on a stream
\* of op.len bytes, for a table of op.arg rows
DoTableFromBytesWord ==
  Apply("table_from_bytes",
        TableBytes_from_bytes_word(op.len, Word(FixedHeaderSize, 0, Len(op.arg)),
                                   op.arg, op.n, op.build))

\* reader.get(id) on a table of op.len bytes
DoRowGetWord == Apply("row_get", TableReader_get_word(op.len, op.arg, op.n, op.build))

NextWords == DoGuidsGetWord \/ DoTableFromBytesWord \/ DoRowGetWord

SpecWords == InitWords /\ [][NextWords]_vars

\* C17: no operation panics, and no offset computation wraps around: each
\* saturates at the largest machine word.
C17_NoPanicNoWrap ==
  op.name \in {"guids_get", "table_from_bytes", "row_get"} =>
    ~res.panic /\ ~res.wrapped


(***************************************************************************)
(* Properties of the text decodes.                                         *)
(***************************************************************************)
\* the first zero byte at or after cursor c (1-based index), 0 when none
FirstZero(c) ==
  IF ZerosFrom(c) = {} THEN 0
  ELSE CHOOSE j \in ZerosFrom(c) : \A k \in ZerosFrom(c) : j <= k

\* C21: decoding nul-terminated text at cursor c returns the bytes from c up
\* to the first zero byte at or after c and advances the cursor by that length
\* plus the terminator, so a buffer that is one terminated string is consumed
\* entirely; it fails when no zero byte lies at or after c.
C21_NulTerminated ==
  (op.name = "read" /\ op.ty = CStrT("NulTerminated")) =>
    IF FirstZero(op.arg) = 0 THEN ~res.ok
    ELSE /\ res.ok
         /\ res.val = SubSeq(buf, op.arg + 1, FirstZero(op.arg) - 1)
         /\ res.off = FirstZero(op.arg)
         /\ res.off - op.arg = Len(res.val) + 1
         /\ (op.arg = 0 /\ FirstZero(0) = Len(buf)) => res.off = Len(buf)

C21_Witness ==
  /\ op.name = "read" /\ op.ty = CStrT("NulTerminated")
  /\ op.arg = 0 /\ Len(buf) = 3 /\ FirstZero(0) = Len(buf)
  /\ res.ok /\ res.off = Len(buf)


(***************************************************************************)
(* Properties of repeated enumeration.                                     *)
(***************************************************************************)
Shorter(s, t) == IF Len(s) <= Len(t) THEN Len(s) ELSE Len(t)

\* C22: streams() can be called any number of times on one reader; each call
\* returns a new sequence that starts at the first directory entry with the
\* header's stream count, however far earlier sequences were consumed, and
\* two sequences of one reader yield the same items in the same order.
C22_StreamsRestart ==
  /\ op.name = "streams" =>
        /\ dir.yielded = <<>>
        /\ dir.offset = EntryStart(1)
        /\ dir.len = LeValue(buf, EntryStart(1) - 2, 2)
  /\ \A i \in 1..Shorter(dir.yielded, op.earlier.yielded) :
        dir.yielded[i] = op.earlier.yielded[i]

C22_Witness ==
  /\ op.name = "next_earlier"
  /\ Len(op.earlier.yielded) = 2 /\ Len(dir.yielded) = 2
  /\ IsSome(dir.yielded[1]) /\ IsSome(dir.yielded[2])
  /\ dir.yielded[1] # dir.yielded[2]
  /\ op.earlier = dir


(***************************************************************************)
(* Properties of the construction of a tables stream.  The header the      *)
(* bytes declare is read off the raw bytes: the heap-size flags at byte 6, *)
(* the valid bits at byte 8, the k-th row count behind the 24 fixed bytes. *)
(***************************************************************************)
Declared ==
  [heap_sizes |-> HeapSizes_from_bits_truncate(buf[7]),
   valid |-> ValidBits,
   rows |-> [t \in TableIds |->
               IF t \in ValidBits THEN LeValue(buf, 24 + 4 * Rank(t), 4) ELSE 0]]

\* the buffer ends before the end of the header, or before the end of the
\* rows of some table
TooShort ==
  \/ Len(buf) < FixedHeaderSize
  \/ Len(buf) < FixedHeaderSize + RowCountSize * Cardinality(ValidBits)
  \/ \E e \in Layout(Declared, 0, HeaderEnd(Declared)) : Len(buf) < e[3]

\* C23: constructing a tables stream fails with NotEnough exactly when the
\* buffer is shorter than the tables header (24 bytes plus 4 per set bit of
\* valid) or shorter than the end of the rows of some declared table (header
\* end plus the sum of row count * row size over the tables up to and
\* including it); in every other case it succeeds.
C23_ConstructNotEnough ==
  op.name = "from_bytes" =>
    /\ stream.ok <=> ~TooShort
    /\ ~stream.ok => stream = NotEnough

\* a construction failed for the rows of the second of two tables, behind a
\* whole header and the whole rows of the first
C23_Witness ==
  /\ op.name = "from_bytes" /\ stream = NotEnough
  /\ Len(buf) >= FixedHeaderSize
  /\ Len(buf) >= FixedHeaderSize + RowCountSize * Cardinality(ValidBits)
  /\ \E e, f \in Layout(Declared, 0, HeaderEnd(Declared)) :
       /\ e[2] < e[3] /\ e[3] <= Len(buf)
       /\ f[2] = e[3] /\ Len(buf) < f[3]


(***************************************************************************)
(* The row shapes.  Init fixes the tables header, the row type (op.ty),    *)
(* the buffer and the cursor (op.arg); the operations are row_size and the *)
(* decode of one row.                                                      *)
(***************************************************************************)
\* longer than the widest row behind the largest cursor
ShapeLen == 30

\* every byte 0, every byte 2 (a tag every coded index family has), and a
\* buffer too short for most rows
ShapeBufs ==
  {[i \in 1..ShapeLen |-> v] : v \in {0, 2}} \cup {[i \in 1..MaxLen |-> 0]}

InitShapes ==
  /\ header \in HotHeaders \cup FlagHeaders \cup PlainHeaders
  /\ buf \in ShapeBufs
  /\ \E a \in 0..1, R \in RowTypes :
       op = [name |-> "init", arg |-> a, ty |-> RowT(R)]
  /\ res = Absent
  /\ stream = NoStream
  /\ iter = NoIter
  /\ reader = NoReader
  /\ dir = NoDir

\* R::row_size(&header)
DoRowSize == Apply("row_size", row_size(op.ty.of, header))

\* R::from_bytes(buf, &mut offset, id, &header)
DoRowFromBytes ==
  Apply("from_bytes", Row_from_bytes(op.ty.of, buf, op.arg, 0, header))

NextShapes == DoRowSize \/ DoRowFromBytes

SpecShapes == InitShapes /\ [][NextShapes]_vars

\* the widths of the fields, added from the last field to the first
RECURSIVE WidthsFrom(_, _)
WidthsFrom(fields, k) ==
  IF k = 0 THEN 0
  ELSE WidthsFrom(fields, k - 1) + Field_byte_size(fields[Len(fields) + 1 - k], header)

\* C24: a table's row width is the sum of the widths of its fields, each a
\* function of the tables header alone, so the same for every row of the
\* table whatever the row bytes are; ClassLayout's is 2 + 4 + the width of a
\* TypeDef row id.
C24_RowWidth ==
  op.name = "row_size" =>
    /\ res = WidthsFrom(Schema[op.ty.of], Len(Schema[op.ty.of]))
    /\ op.ty.of = "ClassLayoutRow" =>
         res = 2 + 4 + (IF header.rows[RowID.TypeDefRow] < 65536 THEN 2 ELSE 4)

C24_Witness ==
  /\ op.name = "row_size" /\ op.ty.of = "ClassLayoutRow"
  /\ header.rows[RowID.TypeDefRow] = 65536
  /\ res = 10


\* C28: for every row shape and tables header, a successful decode of a row
\* advances the cursor by exactly the table's row_size under that header, so
\* it has stayed inside the buffer and the next row starts where it stopped.
C28_RowDecodeAdvance ==
  (op.name = "from_bytes" /\ res.ok) =>
    /\ res.off - op.arg = row_size(op.ty.of, header)
    /\ res.off <= Len(buf)
    /\ Len(res.val.fields) = Len(Schema[op.ty.of])

\* a row with integer, heap and row id fields was decoded at cursor 1 under a
\* header that makes its row id wide
C28_Witness ==
  /\ op.name = "from_bytes" /\ res.ok /\ op.arg = 1
  /\ \/ /\ op.ty.of = "ClassLayoutRow"
        /\ header.rows[RowID.TypeDefRow] = 65536
        /\ res.off = 11
     \/ /\ op.ty.of = "AssemblyRow"
        /\ header.heap_sizes = 7
        /\ res.off = 29


(***************************************************************************)
(* Properties of the cursor of the compressed integer decode.              *)
(***************************************************************************)
\* the number of bytes the prefix of the byte b0 selects, 0 for prefix 111
FormLength(b0) ==
  IF b0 < 128 THEN 1 ELSE IF b0 < 192 THEN 2 ELSE IF b0 < 224 THEN 4 ELSE 0

\* C25: decoding a compressed unsigned integer advances the cursor by exactly
\* 1, 2 or 4 bytes as the prefix 0, 10 or 110 of the first byte selects; it
\* fails, with the cursor unchanged, when the prefix is 111, when the cursor is
\* at or past the buffer end, or when the 2- or 4-byte form is cut short.
C25_CompressedCursor ==
  op.name = "read_compressed" =>
    IF op.arg >= Len(buf) THEN ~res.ok /\ res.off = op.arg
    ELSE LET n == FormLength(buf[op.arg + 1]) IN
      IF n = 0 \/ op.arg + n > Len(buf) THEN ~res.ok /\ res.off = op.arg
      ELSE res.ok /\ res.off = op.arg + n

\* a four-byte form was decoded; a two-byte form was decoded behind the
\* start of the buffer
C25_Witness ==
  /\ op.name = "read_compressed" /\ res.ok
  /\ \/ FormLength(buf[op.arg + 1]) = 4 /\ res.off = op.arg + 4
     \/ FormLength(buf[op.arg + 1]) = 2 /\ op.arg > 0 /\ res.off = op.arg + 2


(***************************************************************************)
(* Properties of the decode of a directory entry.                          *)
(***************************************************************************)
\* the length, terminator included, of the name of the entry at cursor c
NameLength(c) == FirstZero(c + 8) - (c + 8)

\* C26: decoding a stream directory entry advances the cursor by 8 bytes plus
\* the name's length, terminator included, rounded up to a multiple of 4: the
\* padding is that of the name's length, whatever the cursor's position in
\* the buffer is.
C26_EntryAdvance ==
  (op.name = "read" /\ op.ty = StructT("MetadataStreamHeader") /\ res.ok) =>
    /\ FirstZero(op.arg + 8) # 0
    /\ res.off = op.arg + 8 + 4 * ((NameLength(op.arg) + 3) \div 4)
    /\ res.val.name = SubSeq(buf, op.arg + 9, FirstZero(op.arg + 8) - 1)

\* an entry was decoded at a cursor that is no multiple of 4, with a name
\* whose length is none either
C26_Witness ==
  /\ op.name = "read" /\ op.ty = StructT("MetadataStreamHeader") /\ res.ok
  /\ op.arg % 4 = 1
  /\ NameLength(op.arg) % 4 = 2
  /\ res.off = op.arg + 12
  /\ res.off < Len(buf)


(***************************************************************************)
(* Properties of the version text of the root header.                      *)
(***************************************************************************)
\* the length field of the version text, at byte 12 of the root
VersionLength == LeValue(buf, 12, 4)

\* the cursor is left 4 + L bytes past the start of the length field, and
\* flags and stream count are read from there
VersionFieldSkipped ==
  (op.name = "read_header" /\ res.ok) =>
    /\ res.val.flags = LeValue(buf, 16 + VersionLength, 2)
    /\ res.val.streams = LeValue(buf, 18 + VersionLength, 2)
    /\ res.off = 20 + VersionLength

\* C27: decoding the length-prefixed version text reads a 32-bit length L,
\* returns text that lies, with its terminator, inside the L bytes behind the
\* length field, and leaves the cursor 4 + L bytes past the start of the
\* length field, where flags and stream count are read.
C27_VersionText ==
  /\ VersionFieldSkipped
  /\ (op.name = "read_header" /\ res.ok) =>
       /\ Len(res.val.version) + 1 <= VersionLength
       /\ res.val.version = SubSeq(buf, 17, 16 + Len(res.val.version))


(***************************************************************************)
(* Properties of the end of the stream directory sequence.                 *)
(***************************************************************************)
\* the stream count of the root header, the two bytes before the directory
StreamCount == LeValue(buf, EntryStart(1) - 2, 2)

\* the sequence d has taken no more entries off the count than the header
\* declares, and has yielded no item after an end
Bounded(d) ==
  /\ d.len >= 0
  /\ d.len + Len(d.yielded) = StreamCount
  /\ \A i, j \in 1..Len(d.yielded) :
       (i < j /\ ~IsSome(d.yielded[i])) => ~IsSome(d.yielded[j])

DirectoryBounded ==
  /\ (reader.ok /\ dir # NoDir) => Bounded(dir)
  /\ (reader.ok /\ op.earlier # NoDir) => Bounded(op.earlier)
  /\ (op.name = "next" /\ ~Readable(op.arg)) => ~IsSome(res)

\* a call on a sequence that has used up its count, or has reported the end
\* before, reports the end
EndIsFinal ==
  (op'.name = "next" /\ (dir.len = 0 \/ (dir.yielded # <<>> /\ ~IsSome(dir.yielded[Len(dir.yielded)]))))
    => ~IsSome(res')

\* C29: the stream directory sequence always ends: it yields at most
\* stream_count items, successes and errors together, ends early when an
\* entry header cannot be decoded from the remaining bytes, and once it has
\* reported the end every later call reports the end too.
C29_DirectoryEnds == []DirectoryBounded /\ [][EndIsFinal]_vars

\* the sequence yielded one item, ended at an entry that cannot be decoded
\* with the count not used up, and reported the end again until it was
C29_Witness ==
  /\ op.name = "next" /\ ~IsSome(res) /\ dir.len = 0
  /\ Len(dir.yielded) = 3
  /\ IsSome(dir.yielded[1]) /\ ~IsSome(dir.yielded[2]) /\ ~IsSome(dir.yielded[3])
  /\ op.arg > EntryStart(2)


(***************************************************************************)
(* Properties of the presence bits of table ids without a row type.        *)
(***************************************************************************)
\* the set bits of valid that belong to no row type
Unschemed == ValidBits \ SchemaIds

\* 0x03, 0x05, 0x07, 0x13, 0x16, 0x1e, 0x1f and the ids above 0x2c
NoRowType == {3, 5, 7, 19, 22, 30, 31} \cup 45..63

\* C30: a presence bit set for a table id without a row type takes one row
\* count in the tables header and no row bytes: the tables with a row type lie
\* back to back from the end of the header, whatever count the other id
\* declares, and the construction fails only where the buffer is too short for
\* the header or for those tables.
C30_UnschemedBits ==
  (op.name = "from_bytes" /\ Len(buf) >= FixedHeaderSize /\ Unschemed # {}) =>
    /\ Unschemed \subseteq NoRowType
    /\ TableIds \ SchemaIds = NoRowType
    /\ stream.ok <=> ~TooShort
    /\ stream.ok =>
         /\ \A t \in Unschemed :
              stream.header.rows[t] = LeValue(buf, 24 + 4 * Rank(t), 4)
         /\ \A e \in Layout(Declared, 0, 24 + 4 * Cardinality(ValidBits)) :
              stream.tables[e[1]] = Region(e[2], e[3])
         /\ \A R \in RowTypes :
              stream.tables[R].beg < stream.tables[R].end =>
                \/ stream.tables[R].beg = 24 + 4 * Cardinality(ValidBits)
                \/ \E Q \in RowTypes : stream.tables[Q].end = stream.tables[R].beg

\* a stream was constructed whose header declares two rows of table 0x03 and
\* rows of ModuleRef, which start at the end of the header
C30_Witness ==
  /\ op.name = "from_bytes" /\ stream.ok
  /\ \/ 3 \in Unschemed /\ stream.header.rows[3] = 2
     \/ 45 \in Unschemed /\ stream.header.rows[45] = 2
  /\ stream.tables.ModuleRefRow = Region(32, 36)

=============================================================================
